---- MODULE Spec2Model ----
(***************************************************************************)
(* Model of the grant-normalisation core of italian_grants_crawler:        *)
(* core/data_processor.py (clean_text, extract_number, parse_date,         *)
(* match_to_controlled_vocab, generate_variants, process_grant_data) and   *)
(* the requirement detector find_target_words of the regional crawlers.    *)
(*                                                                         *)
(* A Python str is a sequence of one-character strings, so that substring  *)
(* tests, lower(), regular expressions and slicing are computed character  *)
(* by character.  A Python value is a record [t, s, n, d]: t is the type   *)
(* ("None", "str", "float", "list") or, for a raised exception, the        *)
(* exception class; s the characters (or the list elements); n/d the       *)
(* float as a decimal fraction n/d with d a power of ten.                  *)
(***************************************************************************)
EXTENDS Integers, Sequences, FiniteSets, TLC

VARIABLES
    fn,             \* the function under call (Spec) or ""
    pc,             \* "ready": arguments bound, "done": the call returned
    text,           \* the text argument (a Python value)
    words,          \* the list argument: vocab_list / target_words
    raw_data,       \* the raw field map argument of process_grant_data
    ret,            \* the returned value (or the exception that escaped)
    heap,           \* SpecWorkers: dict objects, by identity
    wpc,            \* SpecWorkers: each worker's position in process_grant_data
    wraw,           \* SpecWorkers: each worker's raw_data argument
    wref,           \* SpecWorkers: each worker's local name processed_data
    wret,           \* SpecWorkers: each worker's returned record
    data,           \* the record passed to validate_grant_data
    grants,         \* SpecCrawl: the list crawler.crawl() returned
    grant_index,    \* SpecCrawl: the number of grants the loop has been through
    processed_grants,   \* SpecCrawl: the list crawl_site builds
    validation_errors,  \* SpecCrawl: the errors crawl_site logs, by grant name
    grant_urls,     \* BaseCrawler.crawl: the list get_grant_listing_urls() returned
    max_pages,      \* BaseCrawler.crawl: self.max_pages
    url_index,      \* BaseCrawler.crawl: the number of URLs the loop has been through
    parsed,         \* BaseCrawler.crawl: the calls of parse_grant_details so far, with their outcomes
    sites_to_crawl, \* run_crawler: the sites to crawl, in order
    parallel,       \* run_crawler: args.parallel and args.max_workers > 1
    max_workers,    \* run_crawler: args.max_workers
    crawl_results,  \* run_crawler: what crawl_site gives for each site
    futures,        \* run_crawler: the state of each submitted task
    site_index,     \* run_crawler: the number of sites the sequential loop has been through
    all_grants      \* run_crawler: the list the grants are collected in

vars == <<fn, pc, text, words, raw_data, ret, heap, wpc, wraw, wref, wret,
          data, grants, grant_index, processed_grants, validation_errors,
          grant_urls, max_pages, url_index, parsed,
          sites_to_crawl, parallel, max_workers, crawl_results, futures, site_index, all_grants>>

BaseVars == <<grant_urls, max_pages, url_index, parsed>>
RunVars == <<sites_to_crawl, parallel, max_workers, crawl_results, futures, site_index, all_grants>>

----------------------------------------------------------------------------
(* Python values *)

None == [t |-> "None", s |-> <<>>, n |-> 0, d |-> 1]
Str(s) == [t |-> "str", s |-> s, n |-> 0, d |-> 1]
Float(n, d) == [t |-> "float", s |-> <<>>, n |-> n, d |-> d]
List(l) == [t |-> "list", s |-> l, n |-> 0, d |-> 1]
Raise(e) == [t |-> e, s |-> <<>>, n |-> 0, d |-> 1]

Exceptions == {"ValueError", "TypeError", "AttributeError"}
IsRaise(v) == v.t \in Exceptions

\* Python truth value: `not v` is ~Truthy(v)
Truthy(v) ==
    CASE v.t = "None" -> FALSE
      [] v.t = "str" -> v.s # <<>>
      [] v.t = "list" -> v.s # <<>>
      [] v.t = "float" -> v.n # 0
      [] OTHER -> TRUE

----------------------------------------------------------------------------
(* str primitives *)

Digits == <<"0", "1", "2", "3", "4", "5", "6", "7", "8", "9">>
DigitSet == {Digits[i] : i \in 1..10}
IsDigit(c) == c \in DigitSet
DigitVal(c) == (CHOOSE i \in 1..10 : Digits[i] = c) - 1

\* \s of the re module
IsSpace(c) == c \in {" ", "\n", "\t", "\r"}

UpperCase == <<"A","B","C","D","E","F","G","H","I","J","K","L","M","N","O","P","Q","R","S","T","U","V","W","X","Y","Z","À","È","É","Ì","Ò","Ù">>
LowerCase == <<"a","b","c","d","e","f","g","h","i","j","k","l","m","n","o","p","q","r","s","t","u","v","w","x","y","z","à","è","é","ì","ò","ù">>

ToLower == [c \in {UpperCase[i] : i \in 1..Len(UpperCase)} |->
              LowerCase[CHOOSE i \in 1..Len(UpperCase) : UpperCase[i] = c]]
ToUpper == [c \in {LowerCase[i] : i \in 1..Len(LowerCase)} |->
              UpperCase[CHOOSE i \in 1..Len(LowerCase) : LowerCase[i] = c]]

LowerChar(c) == IF c \in DOMAIN ToLower THEN ToLower[c] ELSE c
UpperChar(c) == IF c \in DOMAIN ToUpper THEN ToUpper[c] ELSE c

\* s.lower(), s.upper()
lower(s) == [i \in 1..Len(s) |-> LowerChar(s[i])]
upper(s) == [i \in 1..Len(s) |-> UpperChar(s[i])]

\* needle in hay
Contains(hay, needle) ==
    \/ needle = <<>>
    \/ \E i \in 1..(Len(hay) - Len(needle) + 1) :
          /\ hay[i] = needle[1]
          /\ SubSeq(hay, i, i + Len(needle) - 1) = needle

\* s.endswith(c) for a one-character suffix
endswith(s, c) == Len(s) > 0 /\ s[Len(s)] = c

\* s.replace(old, new) for a one-character old
RECURSIVE replace(_, _, _)
replace(s, old, new) ==
    IF s = <<>> THEN <<>>
    ELSE (IF Head(s) = old THEN new ELSE <<Head(s)>>) \o replace(Tail(s), old, new)

\* s.strip()
strip(s) ==
    LET keep == {i \in 1..Len(s) : ~IsSpace(s[i])}
    IN  IF keep = {} THEN <<>>
        ELSE SubSeq(s, CHOOSE i \in keep : \A j \in keep : i <= j,
                       CHOOSE i \in keep : \A j \in keep : i >= j)

\* s.split(): the maximal runs of non-whitespace characters, in order
RECURSIVE split(_)
split(s) ==
    LET starts == {i \in 1..Len(s) : ~IsSpace(s[i])}
    IN  IF starts = {} THEN <<>>
        ELSE LET b == CHOOSE i \in starts : \A j \in starts : i <= j
                 e == CHOOSE j \in b..Len(s) :
                        /\ \A k \in b..j : ~IsSpace(s[k])
                        /\ (j = Len(s) \/ IsSpace(s[j + 1]))
             IN  <<SubSeq(s, b, e)>> \o split(SubSeq(s, e + 1, Len(s)))

\* sep.join(parts)
RECURSIVE join(_, _)
join(sep, parts) ==
    IF parts = <<>> THEN <<>>
    ELSE IF Len(parts) = 1 THEN parts[1]
    ELSE parts[1] \o sep \o join(sep, Tail(parts))

CommaSpace == <<",", " ">>

----------------------------------------------------------------------------
(* clean_text *)

\* re.sub(r'\s+', ' ', s): every maximal run of whitespace becomes one space
RECURSIVE sub_spaces(_, _)
sub_spaces(s, i) ==
    IF i > Len(s) THEN <<>>
    ELSE IF IsSpace(s[i])
         THEN (IF i > 1 /\ IsSpace(s[i - 1]) THEN <<>> ELSE <<" ">>) \o sub_spaces(s, i + 1)
         ELSE <<s[i]>> \o sub_spaces(s, i + 1)

clean_text_unstripped(t) ==
    IF t = None THEN Str(<<>>)
    ELSE IF t.t # "str" THEN Raise("TypeError")
    ELSE Str(sub_spaces(t.s, 1))

clean_text(t) ==
    IF t = None THEN Str(<<>>)
    ELSE IF t.t # "str" THEN Raise("TypeError")     \* re.sub on a non-string
    ELSE Str(strip(sub_spaces(t.s, 1)))

----------------------------------------------------------------------------
(* extract_number *)

IsNumChar(c) == IsDigit(c) \/ c = "." \/ c = ","

\* re.findall(r'(?:€\s*)?([\d.,]+)(?:\s*(?:euro|€|EUR))?', s): the list of
\* group 1 of the successive matches.  The prefix and the suffix are optional
\* and hold no character of [\d.,], and [\d.,]+ is greedy, so the groups are
\* the maximal runs of characters of [\d.,], left to right.
RECURSIVE findall_number(_, _)
findall_number(s, i) ==
    IF i > Len(s) THEN <<>>
    ELSE IF IsNumChar(s[i])
         THEN LET e == CHOOSE j \in i..Len(s) :
                         /\ \A k \in i..j : IsNumChar(s[k])
                         /\ (j = Len(s) \/ ~IsNumChar(s[j + 1]))
              IN  <<SubSeq(s, i, e)>> \o findall_number(s, e + 1)
         ELSE findall_number(s, i + 1)

RECURSIVE DigitsValue(_)
DigitsValue(ds) ==
    IF ds = <<>> THEN 0 ELSE DigitsValue(SubSeq(ds, 1, Len(ds) - 1)) * 10 + DigitVal(ds[Len(ds)])

RECURSIVE Pow10(_)
Pow10(k) == IF k = 0 THEN 1 ELSE 10 * Pow10(k - 1)

RECURSIVE Reduced(_, _)
Reduced(n, d) == IF d > 1 /\ n % 10 = 0 THEN Reduced(n \div 10, d \div 10) ELSE Float(n, d)

\* float(s) for s over digits and '.': a number when s has at least one digit
\* and at most one '.', ValueError otherwise
float(s) ==
    LET dots == {i \in 1..Len(s) : s[i] = "."}
        digs == SelectSeq(s, IsDigit)
    IN  IF Cardinality(dots) > 1 \/ digs = <<>> \/ \E i \in 1..Len(s) : ~(IsDigit(s[i]) \/ s[i] = ".")
        THEN Raise("ValueError")
        ELSE IF dots = {} THEN Float(DigitsValue(digs), 1)
        ELSE LET p == CHOOSE i \in dots : TRUE
             IN  Reduced(DigitsValue(digs), Pow10(Len(s) - p))

extract_number_unguarded(t) ==
    IF ~Truthy(t) THEN None
    ELSE IF t.t # "str" THEN Raise("TypeError")
    ELSE LET matches == findall_number(t.s, 1)
         IN  IF matches # <<>>
             THEN float(replace(replace(matches[1], ".", <<>>), ",", <<".">>))
             ELSE None

RECURSIVE first_parsable(_)
first_parsable(matches) ==
    IF matches = <<>> THEN None
    ELSE LET r == float(replace(replace(matches[1], ".", <<>>), ",", <<".">>))
         IN  IF r = Raise("ValueError") THEN first_parsable(Tail(matches)) ELSE r

extract_number_any_match(t) ==
    IF ~Truthy(t) THEN None
    ELSE IF t.t # "str" THEN Raise("TypeError")
    ELSE first_parsable(findall_number(t.s, 1))

extract_number_decimal_point(t) ==
    IF ~Truthy(t) THEN None
    ELSE IF t.t # "str" THEN Raise("TypeError")
    ELSE LET matches == findall_number(t.s, 1)
         IN  IF matches # <<>>
             THEN LET r == float(replace(matches[1], ",", <<>>))
                  IN  IF r = Raise("ValueError") THEN None ELSE r
             ELSE None

extract_number(t) ==
    IF ~Truthy(t) THEN None
    ELSE IF t.t # "str" THEN Raise("TypeError")     \* re.findall on a non-string
    ELSE LET matches == findall_number(t.s, 1)
         IN  IF matches # <<>>
             THEN LET value_str == replace(replace(matches[1], ".", <<>>), ",", <<".">>)
                      r == float(value_str)
                  IN  IF r = Raise("ValueError") THEN None ELSE r
             ELSE None

----------------------------------------------------------------------------
(* parse_date *)

\* date_formats: '%d/%m/%Y', '%d-%m-%Y', '%d.%m.%Y', '%Y/%m/%d', '%Y-%m-%d', '%Y.%m.%d'
date_formats == <<
    [order |-> "dmY", sep |-> "/"], [order |-> "dmY", sep |-> "-"], [order |-> "dmY", sep |-> "."],
    [order |-> "Ymd", sep |-> "/"], [order |-> "Ymd", sep |-> "-"], [order |-> "Ymd", sep |-> "."] >>

\* the directive patterns of _strptime: %d is 3[0-1]|[1-2]\d|0[1-9]|[1-9]| [1-9],
\* %m is 1[0-2]|0[1-9]|[1-9], %Y is \d\d\d\d
IsNonZeroDigit(c) == IsDigit(c) /\ c # "0"
MatchesDay(f) ==
    \/ Len(f) = 1 /\ IsNonZeroDigit(f[1])
    \/ Len(f) = 2 /\ \/ f[1] = "3" /\ f[2] \in {"0", "1"}
                     \/ f[1] \in {"1", "2"} /\ IsDigit(f[2])
                     \/ f[1] \in {"0", " "} /\ IsNonZeroDigit(f[2])
MatchesMonth(f) ==
    \/ Len(f) = 1 /\ IsNonZeroDigit(f[1])
    \/ Len(f) = 2 /\ \/ f[1] = "1" /\ f[2] \in {"0", "1", "2"}
                     \/ f[1] = "0" /\ IsNonZeroDigit(f[2])
MatchesYear(f) == Len(f) = 4 /\ \A i \in 1..4 : IsDigit(f[i])

FieldValue(f) == DigitsValue(SelectSeq(f, IsDigit))

IsLeap(y) == (y % 4 = 0 /\ y % 100 # 0) \/ y % 400 = 0
DaysInMonth(y, m) ==
    IF m = 2 THEN (IF IsLeap(y) THEN 29 ELSE 28)
    ELSE IF m \in {4, 6, 9, 11} THEN 30 ELSE 31

TwoDigits(k) == <<Digits[((k \div 10) % 10) + 1], Digits[(k % 10) + 1]>>
FourDigits(k) == TwoDigits(k \div 100) \o TwoDigits(k % 100)

strptime_strftime_month_first(s, fmt) ==
    LET seps == {i \in 1..Len(s) : s[i] = fmt.sep}
    IN  IF Cardinality(seps) # 2 THEN Raise("ValueError")
        ELSE LET p == CHOOSE i \in seps : \A j \in seps : i <= j
                 q == CHOOSE i \in seps : \A j \in seps : i >= j
                 f1 == SubSeq(s, 1, p - 1)
                 f2 == SubSeq(s, p + 1, q - 1)
                 f3 == SubSeq(s, q + 1, Len(s))
                 fm == IF fmt.order = "dmY" THEN f1 ELSE f2
                 fd == IF fmt.order = "dmY" THEN f2 ELSE f3
                 fy == IF fmt.order = "dmY" THEN f3 ELSE f1
             IN  IF ~(MatchesDay(fd) /\ MatchesMonth(fm) /\ MatchesYear(fy))
                 THEN Raise("ValueError")
                 ELSE IF FieldValue(fy) < 1 \/ FieldValue(fd) > DaysInMonth(FieldValue(fy), FieldValue(fm))
                      THEN Raise("ValueError")
                      ELSE Str(FourDigits(FieldValue(fy)) \o <<"-">> \o TwoDigits(FieldValue(fm))
                               \o <<"-">> \o TwoDigits(FieldValue(fd)))

\* datetime.strptime(s, fmt).strftime('%Y-%m-%d'): the whole of s has to match
\* the format and name a date of the calendar (year >= 1), else ValueError
strptime_strftime(s, fmt) ==
    LET seps == {i \in 1..Len(s) : s[i] = fmt.sep}
    IN  IF Cardinality(seps) # 2 THEN Raise("ValueError")
        ELSE LET p == CHOOSE i \in seps : \A j \in seps : i <= j
                 q == CHOOSE i \in seps : \A j \in seps : i >= j
                 f1 == SubSeq(s, 1, p - 1)
                 f2 == SubSeq(s, p + 1, q - 1)
                 f3 == SubSeq(s, q + 1, Len(s))
                 fd == IF fmt.order = "dmY" THEN f1 ELSE f3
                 fy == IF fmt.order = "dmY" THEN f3 ELSE f1
             IN  IF ~(MatchesDay(fd) /\ MatchesMonth(f2) /\ MatchesYear(fy))
                 THEN Raise("ValueError")
                 ELSE LET y == FieldValue(fy)
                          m == FieldValue(f2)
                          d == FieldValue(fd)
                      IN  IF y < 1 \/ d > DaysInMonth(y, m) THEN Raise("ValueError")
                          ELSE Str(FourDigits(y) \o <<"-">> \o TwoDigits(m) \o <<"-">> \o TwoDigits(d))

\* the for loop over date_formats: the first format that parses returns
RECURSIVE try_formats(_, _)
try_formats(s, i) ==
    IF i > Len(date_formats) THEN None
    ELSE LET r == strptime_strftime(s, date_formats[i])
         IN  IF r = Raise("ValueError") THEN try_formats(s, i + 1) ELSE r

months_it == <<
    [name |-> <<"g","e","n","n","a","i","o">>, num |-> <<"0","1">>], [name |-> <<"f","e","b","b","r","a","i","o">>, num |-> <<"0","2">>],
    [name |-> <<"m","a","r","z","o">>, num |-> <<"0","3">>], [name |-> <<"a","p","r","i","l","e">>, num |-> <<"0","4">>],
    [name |-> <<"m","a","g","g","i","o">>, num |-> <<"0","5">>], [name |-> <<"g","i","u","g","n","o">>, num |-> <<"0","6">>],
    [name |-> <<"l","u","g","l","i","o">>, num |-> <<"0","7">>], [name |-> <<"a","g","o","s","t","o">>, num |-> <<"0","8">>],
    [name |-> <<"s","e","t","t","e","m","b","r","e">>, num |-> <<"0","9">>], [name |-> <<"o","t","t","o","b","r","e">>, num |-> <<"1","0">>],
    [name |-> <<"n","o","v","e","m","b","r","e">>, num |-> <<"1","1">>], [name |-> <<"d","i","c","e","m","b","r","e">>, num |-> <<"1","2">>] >>

\* str.zfill(2)
zfill2(s) == IF Len(s) >= 2 THEN s ELSE IF Len(s) = 1 THEN <<"0">> \o s ELSE <<"0", "0">>

\* re.search(fr'(\d+)\s+{month_name}\s+(\d{4})', s): the leftmost match, as
\* [day, year], or <<>> when there is none.  (\d+) is greedy and has to be
\* followed by whitespace, so from a start i it takes the digits up to the
\* first non-digit.
month_search(s, name) ==
    LET RunEnd(i, P(_)) ==      \* last index of the run of P-characters from i, i - 1 if none
            IF i > Len(s) \/ ~P(s[i]) THEN i - 1
            ELSE CHOOSE j \in i..Len(s) :
                    /\ \A k \in i..j : P(s[k])
                    /\ (j = Len(s) \/ ~P(s[j + 1]))
        MatchAt(i) ==
            LET de == RunEnd(i, IsDigit)
                se == RunEnd(de + 1, IsSpace)
                me == se + Len(name)
                s2 == RunEnd(me + 1, IsSpace)
            IN  /\ de >= i
                /\ se > de
                /\ me <= Len(s) /\ SubSeq(s, se + 1, me) = name
                /\ s2 > me
                /\ s2 + 4 <= Len(s) /\ \A k \in (s2 + 1)..(s2 + 4) : IsDigit(s[k])
        hits == {i \in 1..Len(s) : MatchAt(i)}
    IN  IF hits = {} THEN <<>>
        ELSE LET i == CHOOSE h \in hits : \A g \in hits : h <= g
                 de == RunEnd(i, IsDigit)
                 s2 == RunEnd(RunEnd(de + 1, IsSpace) + Len(name) + 1, IsSpace)
             IN  <<SubSeq(s, i, de), SubSeq(s, s2 + 1, s2 + 4)>>

month_date_unpadded(m, g) == Str(g[2] \o <<"-">> \o m.num \o <<"-">> \o g[1])

\* return f"{year}-{month_num}-{day.zfill(2)}" for the groups g of the match
month_date(m, g) == Str(g[2] \o <<"-">> \o m.num \o <<"-">> \o zfill2(g[1]))

\* if month_name in date_str.lower(): match = re.search(pattern, date_str.lower())
month_match(low, m) == IF Contains(low, m.name) THEN month_search(low, m.name) ELSE <<>>

\* the for loop over months_it.items() from index i on: the first month whose
\* pattern matches returns
RECURSIVE try_months(_, _)
first_month(s, i, m, g) == IF g # <<>> THEN month_date(m, g) ELSE try_months(s, i + 1)
try_months(s, i) ==
    IF i > Len(months_it) THEN None
    ELSE first_month(s, i, months_it[i], month_match(lower(s), months_it[i]))

\* the three stages on the cleaned text: the formats, the month names, the text itself
first_parsed(byFormat, byMonth, cleaned) ==
    IF byFormat # None THEN byFormat
    ELSE IF byMonth # None THEN byMonth
    ELSE cleaned

parse_cleaned(c) ==
    IF IsRaise(c) THEN c ELSE first_parsed(try_formats(c.s, 1), try_months(c.s, 1), c)

parse_date(t) == IF ~Truthy(t) THEN None ELSE parse_cleaned(clean_text(t))

----------------------------------------------------------------------------
(* match_to_controlled_vocab, generate_variants *)

generate_variants_always_initialism(term) ==
    LET plural ==
            IF endswith(term, "e") THEN <<SubSeq(term, 1, Len(term) - 1) \o <<"i">> >>
            ELSE IF endswith(term, "o") THEN <<SubSeq(term, 1, Len(term) - 1) \o <<"i">> >>
            ELSE IF endswith(term, "a") THEN <<SubSeq(term, 1, Len(term) - 1) \o <<"e">> >>
            ELSE <<>>
        ws == split(term)
    IN  plural \o <<upper([i \in 1..Len(ws) |-> ws[i][1]])>>

generate_variants(term) ==
    LET plural ==
            IF endswith(term, "e") THEN <<SubSeq(term, 1, Len(term) - 1) \o <<"i">> >>
            ELSE IF endswith(term, "o") THEN <<SubSeq(term, 1, Len(term) - 1) \o <<"i">> >>
            ELSE IF endswith(term, "a") THEN <<SubSeq(term, 1, Len(term) - 1) \o <<"e">> >>
            ELSE <<>>
        abbr ==
            IF \E i \in 1..Len(term) : term[i] = " "
            THEN LET ws == split(term) IN <<upper([i \in 1..Len(ws) |-> ws[i][1]])>>
            ELSE <<>>
    IN  plural \o abbr

\* the loop of match_to_controlled_vocab over vocab_list[i..], on the lower-cased text
RECURSIVE vocab_loop(_, _, _)
vocab_loop(low, vocab_list, i) ==
    IF i > Len(vocab_list) THEN <<>>
    ELSE LET item == vocab_list[i]
             vs == generate_variants(item)
             hit == \/ Contains(low, lower(item))
                    \/ \E v \in 1..Len(vs) : Contains(low, vs[v])
         IN  (IF hit THEN <<item>> ELSE <<>>) \o vocab_loop(low, vocab_list, i + 1)

RECURSIVE vocab_loop_text_order(_, _, _)
vocab_loop_text_order(low, vocab_list, i) ==
    IF i > Len(low) THEN <<>>
    ELSE LET here == {k \in 1..Len(vocab_list) :
                        /\ i + Len(vocab_list[k]) - 1 <= Len(low)
                        /\ SubSeq(low, i, i + Len(vocab_list[k]) - 1) = lower(vocab_list[k])}
         IN  (IF here = {} THEN <<>> ELSE <<vocab_list[CHOOSE k \in here : TRUE]>>)
             \o vocab_loop_text_order(low, vocab_list, i + 1)

match_to_controlled_vocab_text_order(t, vocab_list) ==
    IF ~Truthy(t) THEN List(<<>>)
    ELSE IF t.t # "str" THEN Raise("AttributeError")
    ELSE List(vocab_loop_text_order(lower(t.s), vocab_list, 1))

match_to_controlled_vocab(t, vocab_list) ==
    IF ~Truthy(t) THEN List(<<>>)
    ELSE IF t.t # "str" THEN Raise("AttributeError")    \* float has no lower()
    ELSE List(vocab_loop(lower(t.s), vocab_list, 1))

----------------------------------------------------------------------------
(* module-level lists of core/data_processor.py *)

Range(seq) == {seq[i] : i \in 1..Len(seq)}

EXPECTED_COLUMNS == <<
    "Nome del bando", "Categoria del bando_MR", "Descrizione breve (Plain text)",
    "Descrizione del bando", "Descrizione fondo perduto", "Descrizione tipo di agevolazione e emanazione",
    "Dotazione", "Percentuale fondo perduto number", "Richiesta massima (number)",
    "Richiesta minima (number)", "Regime di aiuto", "Spese ammissibili",
    "Spese ammissibili_MR", "A chi si rivolge", "A chi si rivolge_MR",
    "Codice ateco", "Excluded Codice ateco", "Settore_MR",
    "Sezione", "Cumulabilità", "Scadenza",
    "Scadenza interna", "Data di apertura", "Data creazione",
    "Stato del bando", "Tipo", "Iter presentazione della domanda",
    "Documentazione necessaria", "Esempi progetti ammissibili", "Promotore del bando",
    "Emanazione", "Provincia", "Località_MR",
    "Link al sito del bando", "Link Bando", "Allegato Compilativo - X",
    "Allegato informativo - X" >>

A_CHI_SI_RIVOLGE == <<
    <<"l","i","b","e","r","i"," ","p","r","o","f","e","s","s","i","o","n","i","s","t","i">>,
    <<"e","n","t","i"," ","p","u","b","b","l","i","c","i">>,
    <<"f","o","r","m","a","t","o","r","i">>,
    <<"e","n","t","i"," ","d","e","l"," ","t","e","r","z","o"," ","s","e","t","t","o","r","e">>,
    <<"c","i","t","t","a","d","i","n","i">>,
    <<"p","i","c","c","o","l","a"," ","i","m","p","r","e","s","a">>,
    <<"f","o","n","d","a","z","i","o","n","i">>,
    <<"s","t","a","r","t","u","p">>,
    <<"d","a","t","o","r","i"," ","d","i"," ","l","a","v","o","r","o">>,
    <<"p","r","o","g","e","t","t","o"," ","n","o","n"," ","c","o","s","t","i","t","u","i","t","o">>,
    <<"u","n","i","v","e","r","s","i","t","à">>,
    <<"P","M","I">>,
    <<"m","i","c","r","o"," ","i","m","p","r","e","s","a">>,
    <<"c","o","o","p","e","r","a","t","i","v","e">>,
    <<"c","o","n","s","o","r","z","i">>,
    <<"a","s","s","o","c","i","a","z","i","o","n","i">>,
    <<"g","r","a","n","d","i"," ","i","m","p","r","e","s","e">> >>

SETTORE_MR == <<
    <<"A","g","r","i","c","o","l","t","u","r","a">>,
    <<"C","o","n","s","u","l","e","n","z","a">>,
    <<"A","r","t","i","g","i","a","n","a","t","o">>,
    <<"A","l","i","m","e","n","t","a","r","e">>,
    <<"A","i","u","t","o"," ","e"," ","s","u","p","p","o","r","t","o">>,
    <<"C","u","l","t","u","r","a">>,
    <<"I","s","t","r","u","z","i","o","n","e">>,
    <<"S","o","c","i","a","l","i","t","à">>,
    <<"I","n","d","u","s","t","r","i","a">>,
    <<"R","&","S">>,
    <<"S","o","s","t","e","n","i","b","i","l","i","t","à">>,
    <<"T","u","r","i","s","m","o">>,
    <<"F","i","n","a","n","z","i","a","r","i","o">>,
    <<"I","n","n","o","v","a","z","i","o","n","e"," ","e"," ","d","i","g","i","t","a","l","e">>,
    <<"S","e","r","v","i","z","i">>,
    <<"S","p","o","r","t">> >>

SPESE_AMMISSIBILI_MR == <<
    <<"P","e","r","s","o","n","a","l","e"," ","d","i","p","e","n","d","e","n","t","e">>,
    <<"P","e","r","s","o","n","a","l","e"," ","e","s","t","e","r","n","o","/","c","o","n","s","u","l","e","n","z","a">>,
    <<"F","o","r","m","a","z","i","o","n","e">>,
    <<"A","t","t","r","e","z","z","a","t","u","r","e"," ","e"," ","m","a","c","c","h","i","n","a","r","i">>,
    <<"A","f","f","i","t","t","o">>,
    <<"U","t","e","n","z","e">>,
    <<"A","c","q","u","i","s","t","o"," ","i","m","m","o","b","i","l","i">>,
    <<"O","p","e","r","e"," ","e","d","i","l","i"," ","e"," ","r","i","s","t","r","u","t","t","u","r","a","z","i","o","n","e">>,
    <<"A","r","r","e","d","i">>,
    <<"I","m","p","i","a","n","t","i"," ","d","i"," ","p","r","o","d","u","z","i","o","n","e">>,
    <<"P","o","l","i","z","z","e"," ","a","s","s","i","c","u","r","a","t","i","v","e">>,
    <<"S","p","e","s","e"," ","l","e","g","a","l","i">>,
    <<"S","p","e","s","e"," ","a","m","m","i","n","i","s","t","r","a","t","i","v","e">>,
    <<"M","a","r","k","e","t","i","n","g">>,
    <<"P","a","r","t","e","c","i","p","a","z","i","o","n","e"," ","a"," ","f","i","e","r","e"," ","e","d"," ","e","v","e","n","t","i">>,
    <<"S","p","e","s","e"," ","d","i"," ","l","o","g","i","s","t","i","c","a">>,
    <<"S","o","f","t","w","e","r","e">>,
    <<"D","i","g","i","t","a","l","i","z","z","a","z","i","o","n","e">>,
    <<"S","t","u","d","i"," ","d","i"," ","f","a","t","t","i","b","i","l","i","t","à">>,
    <<"R","i","c","e","r","c","a"," ","d","i"," ","m","e","r","c","a","t","o">>,
    <<"R","e","g","i","s","t","r","a","z","i","o","n","e"," ","b","r","e","v","e","t","t","o">>,
    <<"R","e","g","i","s","t","r","a","z","i","o","n","e"," ","m","a","r","c","h","i","o">>,
    <<"C","e","r","t","i","f","i","c","a","z","i","o","n","e">>,
    <<"S","e","r","v","i","z","i">>,
    <<"B","r","e","v","e","t","t","i"," ","e"," ","l","i","c","e","n","z","e">>,
    <<"S","p","e","s","e"," ","g","e","n","e","r","a","l","i"," ","/"," ","a","l","t","r","i"," ","o","n","e","r","i">>,
    <<"F","a","b","b","r","i","c","a","t","i"," ","e"," ","t","e","r","r","e","n","i">> >>

SEZIONE_ATECO == <<"A", "B", "C", "D", "E", "F", "G", "H", "I", "J", "K", "L", "M", "N", "O", "P", "Q", "R", "S", "T", "U">>

\* the module-level objects a call of process_grant_data reads
ModuleGlobals == [
    EXPECTED_COLUMNS |-> EXPECTED_COLUMNS,
    A_CHI_SI_RIVOLGE |-> A_CHI_SI_RIVOLGE,
    SPESE_AMMISSIBILI_MR |-> SPESE_AMMISSIBILI_MR,
    SETTORE_MR |-> SETTORE_MR,
    SEZIONE_ATECO |-> SEZIONE_ATECO ]

----------------------------------------------------------------------------
(* process_grant_data.  A dict is a function from its keys; the state of    *)
(* the body between its loops is [status, data]: status "ok" and the dict   *)
(* processed_data, or the class of the exception that is propagating.       *)

Dict(pd) == [t |-> "dict", s |-> pd, n |-> 0, d |-> 1]

\* pd[k] = v
Assign(pd, k, v) == [x \in DOMAIN pd \cup {k} |-> IF x = k THEN v ELSE pd[x]]

Ok(pd) == [status |-> "ok", data |-> pd]
Failed(e, pd) == [status |-> e, data |-> pd]

\* processed_data = {col: "" for col in EXPECTED_COLUMNS}
new_record(g) == [col \in Range(g.EXPECTED_COLUMNS) |-> Str(<<>>)]

copy_raw_unfiltered(raw, pd) ==
    [k \in DOMAIN pd \cup DOMAIN raw |-> IF k \in DOMAIN raw THEN raw[k] ELSE pd[k]]

\* for key, value in raw_data.items(): if key in processed_data: processed_data[key] = value
copy_raw(raw, pd) ==
    [k \in DOMAIN pd |-> IF k \in DOMAIN raw THEN raw[k] ELSE pd[k]]

TEXT_FIELDS == <<
    "Nome del bando", "Descrizione breve (Plain text)",
    "Descrizione del bando", "Descrizione fondo perduto",
    "Descrizione tipo di agevolazione e emanazione",
    "Spese ammissibili", "A chi si rivolge",
    "Codice ateco", "Cumulabilità", "Iter presentazione della domanda",
    "Documentazione necessaria", "Esempi progetti ammissibili" >>
NUMERIC_FIELDS == <<
    "Dotazione", "Percentuale fondo perduto number",
    "Richiesta massima (number)", "Richiesta minima (number)" >>
DATE_FIELDS == <<"Scadenza interna", "Data di apertura", "Data creazione">>

transform(kind, v) ==
    CASE kind = "text" -> clean_text(v)
      [] kind = "numeric" -> extract_number(v)
      [] kind = "date" -> parse_date(v)

\* processed_data[field] = v, unless computing v raised
store(out, field, v) ==
    IF IsRaise(v) THEN Failed(v.t, out.data) ELSE Ok(Assign(out.data, field, v))

\* if field in raw_data: processed_data[field] = transform(raw_data[field])
field_step(kind, field, raw, out) ==
    IF field \in DOMAIN raw THEN store(out, field, transform(kind, raw[field])) ELSE out

\* for field in fields: ..., from index i on; an exception ends the loop
RECURSIVE field_loop(_, _, _, _, _)
field_loop(kind, fields, raw, out, i) ==
    IF i > Len(fields) \/ out.status # "ok" THEN out
    ELSE field_loop(kind, fields, raw, field_step(kind, fields[i], raw, out), i + 1)

text_fields(raw, out) == field_loop("text", TEXT_FIELDS, raw, out, 1)
numeric_fields(raw, out) == field_loop("numeric", NUMERIC_FIELDS, raw, out, 1)
date_fields(raw, out) == field_loop("date", DATE_FIELDS, raw, out, 1)

\* ", ".join(matches), or the exception match_to_controlled_vocab raised
joined(m) == IF IsRaise(m) THEN m ELSE Str(join(CommaSpace, m.s))

\* if primary in raw_data: processed_data[derived] = ", ".join(match_to_controlled_vocab(raw_data[primary], vocab))
vocab_field(raw, out, primary, derived, vocab) ==
    IF out.status # "ok" \/ primary \notin DOMAIN raw THEN out
    ELSE store(out, derived, joined(match_to_controlled_vocab(raw[primary], vocab)))

vocab_fields(raw, out, g) ==
    vocab_field(raw,
        vocab_field(raw,
            vocab_field(raw, out, "A chi si rivolge", "A chi si rivolge_MR", g.A_CHI_SI_RIVOLGE),
            "Spese ammissibili", "Spese ammissibili_MR", g.SPESE_AMMISSIBILI_MR),
        "Descrizione del bando", "Settore_MR", g.SETTORE_MR)

sezione_prefix == <<"s","e","z","i","o","n","e"," ">>

\* the ATECO block: if "Codice ateco" in raw_data and raw_data["Codice ateco"]: ...
sezione_field(raw, out, g) ==
    IF out.status # "ok" \/ "Codice ateco" \notin DOMAIN raw THEN out
    ELSE LET codes == raw["Codice ateco"]
         IN  IF ~Truthy(codes) THEN out
             ELSE IF codes.t # "str" THEN Failed("TypeError", out.data)   \* section in <float>
             ELSE LET listed(section) ==
                          \/ Contains(codes.s, <<section>>)
                          \/ Contains(lower(codes.s), sezione_prefix \o <<section>>)
                      sections == SelectSeq(g.SEZIONE_ATECO, listed)
                  IN  Ok(Assign(out.data, "Sezione",
                                Str(join(CommaSpace, [i \in 1..Len(sections) |-> <<sections[i]>>]))))

\* return processed_data, or the exception that leaves the function
returned(out) == IF out.status = "ok" THEN Dict(out.data) ELSE Raise(out.status)

process_grant_data_with(raw, g) ==
    returned(
        sezione_field(raw,
            vocab_fields(raw,
                date_fields(raw,
                    numeric_fields(raw,
                        text_fields(raw, Ok(copy_raw(raw, new_record(g)))))),
                g),
            g))

process_grant_data(raw) == process_grant_data_with(raw, ModuleGlobals)

----------------------------------------------------------------------------
(* MoliseCrawler.find_target_words *)

validation_keywords == <<
    <<"a","l","l","e","g","a","r","e">>,
    <<"a","l","l","e","g","a","t","o">>,
    <<"p","r","e","s","e","n","t","a","r","e">>,
    <<"p","r","e","s","e","n","t","a","z","i","o","n","e">>,
    <<"f","o","r","n","i","r","e">>,
    <<"o","b","b","l","i","g","a","t","o","r","i","o">>,
    <<"n","e","c","e","s","s","a","r","i","o">>,
    <<"r","i","c","h","i","e","s","t","o">>,
    <<"d","o","c","u","m","e","n","t","a","z","i","o","n","e">>,
    <<"c","o","n","s","e","g","n","a","r","e">>,
    <<"p","r","o","d","u","r","r","e">>,
    <<"t","r","a","s","m","e","t","t","e","r","e">>,
    <<"a","c","c","o","m","p","a","g","n","a","t","o"," ","d","a">>,
    <<"c","o","r","r","e","d","a","t","o"," ","d","a">>,
    <<"d","a"," ","p","r","e","s","e","n","t","a","r","e">>,
    <<"d","o","v","r","a","n","n","o"," ","e","s","s","e","r","e"," ","a","l","l","e","g","a","t","i">>,
    <<"è"," ","r","i","c","h","i","e","s","t","o">>,
    <<"è"," ","n","e","c","e","s","s","a","r","i","o">>,
    <<"d","e","v","e"," ","e","s","s","e","r","e"," ","a","l","l","e","g","a","t","o">>,
    <<"v","a"," ","a","l","l","e","g","a","t","o">>,
    <<"d","o","c","u","m","e","n","t","i"," ","d","a"," ","a","l","l","e","g","a","r","e">>,
    <<"è"," ","o","b","b","l","i","g","a","t","o","r","i","o">>,
    <<"c","o","m","p","l","e","t","o"," ","d","i">>,
    <<"c","o","m","p","r","e","n","s","i","v","o"," ","d","i">>,
    <<"d","e","v","e"," ","r","i","p","o","r","t","a","r","e">>,
    <<"d","a"," ","c","o","m","p","i","l","a","r","e">>,
    <<"d","a"," ","f","i","r","m","a","r","e">>,
    <<"f","i","r","m","a","t","o">>,
    <<"s","o","t","t","o","s","c","r","i","t","t","o">>,
    <<"v","a"," ","p","r","e","s","e","n","t","a","t","o">>,
    <<"s","i"," ","r","i","c","h","i","e","d","e">>,
    <<"s","a","r","à"," ","n","e","c","e","s","s","a","r","i","o">>,
    <<"d","o","c","u","m","e","n","t","o"," ","r","i","c","h","i","e","s","t","o">>,
    <<"d","a"," ","t","r","a","s","m","e","t","t","e","r","e">>,
    <<"o","c","c","o","r","r","e"," ","p","r","e","s","e","n","t","a","r","e">>,
    <<"d","o","c","u","m","e","n","t","o"," ","o","b","b","l","i","g","a","t","o","r","i","o">>,
    <<"i","n","s","i","e","m","e"," ","a">>,
    <<"c","o","p","i","a">>,
    <<"f","i","l","e">>,
    <<"m","o","d","u","l","o">> >>

exclusion_contexts == <<
    <<"n","o","n"," ","è"," ","n","e","c","e","s","s","a","r","i","o">>,
    <<"n","o","n"," ","è"," ","r","i","c","h","i","e","s","t","o">>,
    <<"n","o","n"," ","o","b","b","l","i","g","a","t","o","r","i","o">>,
    <<"f","a","c","o","l","t","a","t","i","v","o">>,
    <<"n","o","n"," ","è"," ","o","b","b","l","i","g","a","t","o","r","i","o">>,
    <<"n","o","n"," ","d","e","v","e"," ","e","s","s","e","r","e"," ","a","l","l","e","g","a","t","o">>,
    <<"n","o","n"," ","s","a","r","à"," ","r","i","c","h","i","e","s","t","o">>,
    <<"n","o","n"," ","s","o","n","o"," ","r","i","c","h","i","e","s","t","i">>,
    <<"o","p","z","i","o","n","a","l","e">> >>

critical_documents == <<
    <<"c","o","d","i","c","e"," ","f","i","s","c","a","l","e">>,
    <<"c","a","r","t","a"," ","d","'","i","d","e","n","t","i","t","à">>,
    <<"d","o","c","u","m","e","n","t","o"," ","i","d","e","n","t","i","t","à">>,
    <<"p","a","r","t","i","t","a"," ","i","v","a">>,
    <<"v","i","s","u","r","a"," ","c","a","m","e","r","a","l","e">>,
    <<"d","u","r","c">>,
    <<"i","b","a","n">>,
    <<"p","r","e","v","e","n","t","i","v","i">> >>

CRITICAL_WINDOW == 300
DEFAULT_WINDOW == 200

\* \w of the re module on str: letters, digits and the underscore
NonWordChars == {" ", "\n", "\t", "\r", ".", ",", ";", ":", "'", "-", "/", "(", ")",
                 "*", "%", "&", "€", "!", "?"}
IsWordChar(c) == c \notin NonWordChars

WordBoundary_everywhere(s, b) == TRUE

\* \b at 1-based index b: between s[b - 1] and s[b], a word character on one side only
WordBoundary(s, b) ==
    (b > 1 /\ IsWordChar(s[b - 1])) # (b <= Len(s) /\ IsWordChar(s[b]))

\* list(re.finditer(r'(?i)\b' + re.escape(target) + r'\b', s)) from index pos on:
\* the 1-based start indices of the successive non-overlapping matches
RECURSIVE finditer(_, _, _)
finditer(s, target, pos) ==
    LET m == Len(target)
        at == {i \in pos..(Len(s) - m + 1) :
                 /\ s[i] = target[1]
                 /\ SubSeq(s, i, i + m - 1) = target
                 /\ WordBoundary(s, i)
                 /\ WordBoundary(s, i + m)}
    IN  IF at = {} THEN <<>>
        ELSE LET i == CHOOSE a \in at : \A b \in at : a <= b
             IN  <<i>> \o finditer(s, target, i + m)

Max(a, b) == IF a >= b THEN a ELSE b
Min(a, b) == IF a <= b THEN a ELSE b

any_in(phrases, context) == \E k \in 1..Len(phrases) : Contains(context, phrases[k])

\* context = text[start:end] of the match at 1-based index i: 1-based first and last index
window_first(i, w) == Max(1, i - w)
window_last_from_start(s, i, m, w) == Min(Len(s), i - 1 + w)
window_last(s, i, m, w) == Min(Len(s), i + m - 1 + w)

\* if any(excl in context for excl in exclusion_contexts): continue
excluded_never(context) == FALSE
excluded(context) == any_in(exclusion_contexts, context)

\* the critical branch: if any(kw in context for kw in validation_keywords)
critical_valid(context) == any_in(validation_keywords, context)

non_critical_valid_two(context) ==
    Cardinality({k \in 1..Len(validation_keywords) : Contains(context, validation_keywords[k])}) >= 2

\* the non-critical branch: found_keywords = [kw for kw in validation_keywords if kw in context]
non_critical_valid(context) ==
    SelectSeq(validation_keywords, LAMBDA kw : Contains(context, kw)) # <<>>

Dots == <<".", ".", ".">>
Stars == <<"*", "*">>

match_contexts_unmarked(s, target_lower, i, is_critical) ==
    LET w == IF is_critical THEN CRITICAL_WINDOW ELSE DEFAULT_WINDOW
        context == SubSeq(s, window_first(i, w), window_last(s, i, Len(target_lower), w))
    IN  IF excluded(context) THEN <<>>
        ELSE IF is_critical
             THEN (IF critical_valid(context) THEN <<context>> ELSE <<>>)
             ELSE (IF non_critical_valid(context) THEN <<context>> ELSE <<>>)

\* the body of `for match in matches` for the match at i: the highlighted
\* snippet in a one-element list when the occurrence is confirmed, else the empty list
match_contexts(s, target_lower, i, is_critical) ==
    LET m == Len(target_lower)
        w == IF is_critical THEN CRITICAL_WINDOW ELSE DEFAULT_WINDOW
        first == window_first(i, w)
        last == window_last(s, i, m, w)
        context == SubSeq(s, first, last)
        highlighted == Dots \o SubSeq(s, first, i - 1) \o Stars \o SubSeq(s, i, i + m - 1)
                       \o Stars \o SubSeq(s, i + m, last) \o Dots
    IN  IF excluded(context) THEN <<>>
        ELSE IF is_critical
             THEN (IF critical_valid(context) THEN <<highlighted>> ELSE <<>>)
             ELSE (IF non_critical_valid(context) THEN <<highlighted>> ELSE <<>>)

RECURSIVE matches_contexts(_, _, _, _, _)
matches_contexts(s, target_lower, matches, k, is_critical) ==
    IF k > Len(matches) THEN <<>>
    ELSE match_contexts(s, target_lower, matches[k], is_critical)
         \o matches_contexts(s, target_lower, matches, k + 1, is_critical)

\* the contexts list of one target: <<>> when the target is skipped or has no
\* confirmed occurrence (valid_match is False exactly then)
target_contexts(s, target) ==
    LET target_lower == lower(target)
        is_critical == \E k \in 1..Len(critical_documents) : critical_documents[k] = target_lower
    IN  IF ~Contains(s, target_lower) THEN <<>>
        ELSE IF ~((\E k \in 1..Len(target_lower) : target_lower[k] = " ") \/ Len(target_lower) > 3)
        THEN <<>>
        ELSE matches_contexts(s, target_lower, finditer(s, target_lower, 1), 1, is_critical)

Result(found, ctx) == [t |-> "tuple", s |-> [found_words |-> found, context_dict |-> ctx], n |-> 0, d |-> 1]

RECURSIVE target_loop_prepend(_, _, _, _, _)
target_loop_prepend(s, target_words, i, found_words, context_dict) ==
    IF i > Len(target_words) THEN Result(found_words, context_dict)
    ELSE LET contexts == target_contexts(s, target_words[i])
         IN  IF contexts # <<>>
             THEN target_loop_prepend(s, target_words, i + 1, <<target_words[i]>> \o found_words,
                                      Assign(context_dict, target_words[i], contexts))
             ELSE target_loop_prepend(s, target_words, i + 1, found_words, context_dict)

\* the loop `for target in target_words` from index i on, with the accumulators
RECURSIVE target_loop(_, _, _, _, _)
target_loop(s, target_words, i, found_words, context_dict) ==
    IF i > Len(target_words) THEN Result(found_words, context_dict)
    ELSE LET contexts == target_contexts(s, target_words[i])
         IN  IF contexts # <<>>
             THEN target_loop(s, target_words, i + 1, Append(found_words, target_words[i]),
                              Assign(context_dict, target_words[i], contexts))
             ELSE target_loop(s, target_words, i + 1, found_words, context_dict)

EmptyDict == [k \in {} |-> <<>>]

find_target_words(t, target_words) ==
    IF ~Truthy(t) THEN Result(<<>>, EmptyDict)
    ELSE IF t.t # "str" THEN Raise("AttributeError")    \* float has no strip()
    ELSE IF strip(t.s) = <<>> THEN Result(<<>>, EmptyDict)
    ELSE target_loop(lower(t.s), target_words, 1, <<>>, EmptyDict)


----------------------------------------------------------------------------
(* The detector of each site adapter: its catalog and the lists of its find_target_words *)

LombardiaCrawler == [
    document_target_words |-> <<
        <<"c","a","r","t","a"," ","d","'","i","d","e","n","t","i","t","à">>, <<"d","o","c","u","m","e","n","t","o"," ","i","d","e","n","t","i","t","à">>, <<"c","o","p","i","a"," ","c","a","r","t","a"," ","i","d","e","n","t","i","t","à">>,
        <<"c","o","d","i","c","e"," ","f","i","s","c","a","l","e">>, <<"C","F">>, <<"d","o","c","u","m","e","n","t","o"," ","s","o","c","i">>, <<"d","o","c","u","m","e","n","t","i"," ","a","n","a","g","r","a","f","i","c","i">>,
        <<"a","t","t","r","i","b","u","z","i","o","n","e"," ","c","o","d","i","c","e"," ","f","i","s","c","a","l","e">>, <<"c","e","r","t","i","f","i","c","a","t","o"," ","c","o","d","i","c","e"," ","f","i","s","c","a","l","e">>,
        <<"c","e","r","t","i","f","i","c","a","t","o"," ","p","a","r","t","i","t","a"," ","I","V","A">>, <<"a","t","t","r","i","b","u","z","i","o","n","e"," ","P",".","I","V","A">>, <<"p","a","r","t","i","t","a"," ","I","V","A">>,
        <<"r","e","g","i","s","t","r","o"," ","i","m","p","r","e","s","e">>, <<"i","s","c","r","i","z","i","o","n","e"," ","C","C","I","A","A">>, <<"c","e","r","t","i","f","i","c","a","t","o"," ","c","a","m","e","r","a"," ","c","o","m","m","e","r","c","i","o">>,
        <<"v","i","s","u","r","a"," ","C","C","I","A","A">>, <<"v","i","s","u","r","a"," ","c","a","m","e","r","a","l","e">>, <<"v","i","s","u","r","a"," ","o","r","d","i","n","a","r","i","a">>, <<"v","i","s","u","r","a"," ","i","m","m","o","b","i","l","e">>,
        <<"v","i","s","u","r","a"," ","c","a","t","a","s","t","a","l","e">>, <<"d","o","c","u","m","e","n","t","o"," ","c","a","t","a","s","t","a","l","e">>, <<"a","t","t","o"," ","c","o","s","t","i","t","u","t","i","v","o">>, <<"s","t","a","t","u","t","o"," ","s","o","c","i","e","t","à">>,
        <<"a","t","t","i"," ","s","o","c","i","a","l","i">>, <<"a","t","t","o"," ","n","o","m","i","n","a"," ","r","a","p","p","r","e","s","e","n","t","a","n","t","e">>, <<"n","o","m","i","n","a"," ","a","m","m","i","n","i","s","t","r","a","t","o","r","e">>,
        <<"d","e","l","e","g","a"," ","f","i","r","m","a">>, <<"d","e","l","e","g","a"," ","s","o","t","t","o","s","c","r","i","z","i","o","n","e">>, <<"d","e","l","e","g","a"," ","r","a","p","p","r","e","s","e","n","t","a","n","z","a">>, <<"D","S","A","N">>,
        <<"d","i","c","h","i","a","r","a","z","i","o","n","e"," ","s","o","s","t","i","t","u","t","i","v","a">>, <<"a","u","t","o","c","e","r","t","i","f","i","c","a","z","i","o","n","e">>, <<"d","i","c","h","i","a","r","a","z","i","o","n","e"," ","d","'","i","n","t","e","n","t","i">>,
        <<"m","a","n","i","f","e","s","t","a","z","i","o","n","e"," ","d","i"," ","i","n","t","e","r","e","s","s","e">>, <<"c","e","r","t","i","f","i","c","a","t","o"," ","c","a","s","e","l","l","a","r","i","o">>, <<"c","a","s","e","l","l","a","r","i","o"," ","p","e","n","a","l","e">>,
        <<"a","s","s","e","n","z","a"," ","c","o","n","d","a","n","n","e"," ","p","e","n","a","l","i">>, <<"D","U","R","C">>, <<"d","o","c","u","m","e","n","t","o"," ","r","e","g","o","l","a","r","i","t","à"," ","c","o","n","t","r","i","b","u","t","i","v","a">>,
        <<"r","e","g","o","l","a","r","i","t","à"," ","c","o","n","t","r","i","b","u","t","i","v","a">>, <<"c","e","r","t","i","f","i","c","a","t","o"," ","f","i","s","c","a","l","e">>, <<"r","e","g","o","l","a","r","i","t","à"," ","f","i","s","c","a","l","e">>,
        <<"a","s","s","e","n","z","a"," ","c","a","r","i","c","h","i"," ","p","e","n","d","e","n","t","i">>, <<"d","i","c","h","i","a","r","a","z","i","o","n","e"," ","a","n","t","i","r","i","c","i","c","l","a","g","g","i","o">>,
        <<"d","i","c","h","i","a","r","a","z","i","o","n","e"," ","a","n","t","i","m","a","f","i","a">>, <<"c","o","n","t","r","i","b","u","t","o"," ","A","N","A","C">>, <<"p","a","g","a","m","e","n","t","o"," ","A","N","A","C">>, <<"r","i","c","e","v","u","t","a"," ","A","N","A","C">>,
        <<"p","i","a","n","o"," ","f","i","n","a","n","z","i","a","r","i","o">>, <<"b","u","d","g","e","t">>, <<"p","r","e","v","e","n","t","i","v","o"," ","e","c","o","n","o","m","i","c","o">>, <<"b","i","l","a","n","c","i","o">>,
        <<"s","t","a","t","o"," ","p","a","t","r","i","m","o","n","i","a","l","e">>, <<"s","i","t","u","a","z","i","o","n","e"," ","e","c","o","n","o","m","i","c","o","-","p","a","t","r","i","m","o","n","i","a","l","e">>, <<"d","i","c","h","i","a","r","a","z","i","o","n","e"," ","r","e","d","d","i","t","i">>,
        <<"m","o","d","e","l","l","o"," ","R","e","d","d","i","t","i">>, <<"7","3","0">>, <<"d","i","c","h","i","a","r","a","z","i","o","n","i"," ","I","V","A">>, <<"I","V","A"," ","a","n","n","u","a","l","e">>, <<"m","o","d","e","l","l","o"," ","I","V","A">>,
        <<"f","i","d","e","i","u","s","s","i","o","n","e"," ","b","a","n","c","a","r","i","a">>, <<"f","i","d","e","i","u","s","s","i","o","n","e"," ","a","s","s","i","c","u","r","a","t","i","v","a">>, <<"g","a","r","a","n","z","i","a"," ","f","i","d","e","i","u","s","s","o","r","i","a">>,
        <<"r","i","c","e","v","u","t","e"," ","p","a","g","a","m","e","n","t","o">>, <<"p","r","o","v","a"," ","p","a","g","a","m","e","n","t","o">>, <<"q","u","i","e","t","a","n","z","e"," ","p","a","g","a","m","e","n","t","o">>, <<"f","a","t","t","u","r","e">>,
        <<"f","a","t","t","u","r","e"," ","e","l","e","t","t","r","o","n","i","c","h","e">>, <<"f","a","t","t","u","r","e"," ","P","A">>, <<"e","-","f","a","t","t","u","r","e">>, <<"g","i","u","s","t","i","f","i","c","a","t","i","v","i"," ","d","i"," ","s","p","e","s","a">>,
        <<"d","o","c","u","m","e","n","t","i"," ","d","i"," ","s","p","e","s","a">>, <<"p","e","z","z","e"," ","g","i","u","s","t","i","f","i","c","a","t","i","v","e">>, <<"s","c","h","e","d","a"," ","p","r","o","g","e","t","t","o">>,
        <<"s","i","n","t","e","s","i"," ","p","r","o","g","e","t","t","o">>, <<"s","c","h","e","d","a"," ","d","e","s","c","r","i","t","t","i","v","a">>, <<"p","r","o","g","r","a","m","m","a"," ","o","p","e","r","a","t","i","v","o">>,
        <<"c","r","o","n","o","p","r","o","g","r","a","m","m","a">>, <<"p","i","a","n","o"," ","a","t","t","i","v","i","t","à">>, <<"d","i","a","g","r","a","m","m","a"," ","d","i"," ","G","a","n","t","t">>, <<"g","a","n","t","t"," ","c","h","a","r","t">>,
        <<"t","i","m","e","l","i","n","e"," ","p","r","o","g","e","t","t","o">>, <<"r","e","l","a","z","i","o","n","e"," ","f","i","n","a","l","e">>, <<"r","e","p","o","r","t"," ","f","i","n","a","l","e">>,
        <<"r","e","n","d","i","c","o","n","t","a","z","i","o","n","e"," ","f","i","n","a","l","e">>, <<"r","e","l","a","z","i","o","n","e"," ","l","a","v","o","r","i">>, <<"r","e","l","a","z","i","o","n","e"," ","a","t","t","i","v","i","t","à">>,
        <<"s","t","a","t","o"," ","a","v","a","n","z","a","m","e","n","t","o"," ","l","a","v","o","r","i">>, <<"P","S","C">>, <<"p","i","a","n","o"," ","s","i","c","u","r","e","z","z","a">>,
        <<"d","o","c","u","m","e","n","t","o"," ","c","o","o","r","d","i","n","a","m","e","n","t","o"," ","s","i","c","u","r","e","z","z","a">>, <<"d","i","c","h","i","a","r","a","z","i","o","n","e"," ","l","o","c","a","l","i","z","z","a","z","i","o","n","e">>,
        <<"u","b","i","c","a","z","i","o","n","e"," ","i","n","t","e","r","v","e","n","t","o">>, <<"a","s","s","e","n","s","o"," ","p","r","o","p","r","i","e","t","a","r","i","o">>, <<"d","i","c","h","i","a","r","a","z","i","o","n","e"," ","c","o","n","s","e","n","s","o">>,
        <<"n","u","l","l","a"," ","o","s","t","a"," ","p","r","o","p","r","i","e","t","à">>, <<"c","o","n","t","r","a","t","t","o"," ","a","f","f","i","t","t","o">>, <<"c","o","n","t","r","a","t","t","o"," ","l","o","c","a","z","i","o","n","e">>,
        <<"c","o","n","t","r","a","t","t","o"," ","c","o","m","o","d","a","t","o">>, <<"p","r","o","g","e","t","t","o"," ","i","m","p","r","e","s","a">>, <<"b","u","s","i","n","e","s","s"," ","p","l","a","n">>, <<"p","i","a","n","o"," ","d","'","i","m","p","r","e","s","a">>,
        <<"p","i","t","c","h">>, <<"p","r","e","s","e","n","t","a","z","i","o","n","e"," ","s","i","n","t","e","t","i","c","a">>, <<"e","l","e","v","a","t","o","r"," ","p","i","t","c","h">>, <<"p","i","t","c","h"," ","d","e","c","k">>, <<"C","V"," ","t","e","a","m">>,
        <<"c","u","r","r","i","c","u","l","u","m">>, <<"p","r","o","f","i","l","o"," ","f","o","n","d","a","t","o","r","i">>, <<"a","t","t","e","s","t","a","t","o"," ","c","o","r","s","o">>, <<"a","t","t","e","s","t","a","t","o"," ","f","o","r","m","a","z","i","o","n","e">>,
        <<"c","e","r","t","i","f","i","c","a","t","o"," ","p","a","r","t","e","c","i","p","a","z","i","o","n","e">>, <<"c","e","r","t","i","f","i","c","a","z","i","o","n","e"," ","q","u","a","l","i","t","à">>, <<"c","e","r","t","i","f","i","c","a","t","o"," ","I","S","O">>,
        <<"c","e","r","t","i","f","i","c","a","t","o"," ","c","o","n","f","o","r","m","i","t","à">>, <<"c","o","n","f","o","r","m","i","t","à"," ","i","m","p","i","a","n","t","o">>, <<"c","o","n","f","o","r","m","i","t","à"," ","n","o","r","m","a","t","i","v","a">>,
        <<"a","t","t","e","s","t","a","z","i","o","n","e"," ","S","O","A">>, <<"c","e","r","t","i","f","i","c","a","z","i","o","n","e"," ","S","O","A">>, <<"q","u","a","l","i","f","i","c","a","z","i","o","n","e"," ","p","e","r"," ","a","p","p","a","l","t","i"," ","p","u","b","b","l","i","c","i">>,
        <<"b","r","e","v","e","t","t","o">>, <<"c","e","r","t","i","f","i","c","a","t","o"," ","d","i"," ","b","r","e","v","e","t","t","o">>, <<"t","i","t","o","l","o"," ","b","r","e","v","e","t","t","u","a","l","e">>, <<"I","B","A","N">>,
        <<"c","e","r","t","i","f","i","c","a","t","o"," ","I","B","A","N">>, <<"c","o","o","r","d","i","n","a","t","e"," ","b","a","n","c","a","r","i","e">> >>,
    validation_keywords |-> <<
        <<"a","l","l","e","g","a","r","e">>, <<"a","l","l","e","g","a","t","o">>, <<"p","r","e","s","e","n","t","a","r","e">>, <<"p","r","e","s","e","n","t","a","z","i","o","n","e">>, <<"f","o","r","n","i","r","e">>,
        <<"o","b","b","l","i","g","a","t","o","r","i","o">>, <<"n","e","c","e","s","s","a","r","i","o">>, <<"r","i","c","h","i","e","s","t","o">>, <<"d","o","c","u","m","e","n","t","a","z","i","o","n","e">>, <<"c","o","n","s","e","g","n","a","r","e">>,
        <<"p","r","o","d","u","r","r","e">>, <<"t","r","a","s","m","e","t","t","e","r","e">>, <<"a","c","c","o","m","p","a","g","n","a","t","o"," ","d","a">>, <<"c","o","r","r","e","d","a","t","o"," ","d","a">>, <<"d","a"," ","p","r","e","s","e","n","t","a","r","e">>,
        <<"d","o","v","r","a","n","n","o"," ","e","s","s","e","r","e"," ","a","l","l","e","g","a","t","i">>, <<"è"," ","r","i","c","h","i","e","s","t","o">>, <<"è"," ","n","e","c","e","s","s","a","r","i","o">>,
        <<"d","e","v","e"," ","e","s","s","e","r","e"," ","a","l","l","e","g","a","t","o">>, <<"v","a"," ","a","l","l","e","g","a","t","o">>, <<"d","o","c","u","m","e","n","t","i"," ","d","a"," ","a","l","l","e","g","a","r","e">>, <<"è"," ","o","b","b","l","i","g","a","t","o","r","i","o">>,
        <<"c","o","m","p","l","e","t","o"," ","d","i">>, <<"c","o","m","p","r","e","n","s","i","v","o"," ","d","i">>, <<"d","e","v","e"," ","r","i","p","o","r","t","a","r","e">>, <<"d","a"," ","c","o","m","p","i","l","a","r","e">>,
        <<"d","a"," ","f","i","r","m","a","r","e">>, <<"f","i","r","m","a","t","o">>, <<"s","o","t","t","o","s","c","r","i","t","t","o">>, <<"v","a"," ","p","r","e","s","e","n","t","a","t","o">>, <<"s","i"," ","r","i","c","h","i","e","d","e">>,
        <<"s","a","r","à"," ","n","e","c","e","s","s","a","r","i","o">>, <<"d","o","c","u","m","e","n","t","o"," ","r","i","c","h","i","e","s","t","o">>, <<"d","a"," ","t","r","a","s","m","e","t","t","e","r","e">>, <<"o","c","c","o","r","r","e"," ","p","r","e","s","e","n","t","a","r","e">>,
        <<"d","o","c","u","m","e","n","t","o"," ","o","b","b","l","i","g","a","t","o","r","i","o">>, <<"i","n","s","i","e","m","e"," ","a">>, <<"c","o","p","i","a">>, <<"f","i","l","e">>, <<"m","o","d","u","l","o">> >>,
    exclusion_contexts |-> <<
        <<"n","o","n"," ","è"," ","n","e","c","e","s","s","a","r","i","o">>, <<"n","o","n"," ","è"," ","r","i","c","h","i","e","s","t","o">>, <<"n","o","n"," ","o","b","b","l","i","g","a","t","o","r","i","o">>, <<"f","a","c","o","l","t","a","t","i","v","o">>,
        <<"n","o","n"," ","è"," ","o","b","b","l","i","g","a","t","o","r","i","o">>, <<"n","o","n"," ","d","e","v","e"," ","e","s","s","e","r","e"," ","a","l","l","e","g","a","t","o">>, <<"n","o","n"," ","s","a","r","à"," ","r","i","c","h","i","e","s","t","o">>,
        <<"n","o","n"," ","s","o","n","o"," ","r","i","c","h","i","e","s","t","i">>, <<"o","p","z","i","o","n","a","l","e">> >>,
    critical_documents |-> <<
        <<"c","o","d","i","c","e"," ","f","i","s","c","a","l","e">>, <<"c","a","r","t","a"," ","d","'","i","d","e","n","t","i","t","à">>, <<"d","o","c","u","m","e","n","t","o"," ","i","d","e","n","t","i","t","à">>, <<"p","a","r","t","i","t","a"," ","i","v","a">>,
        <<"v","i","s","u","r","a"," ","c","a","m","e","r","a","l","e">>, <<"d","u","r","c">>, <<"i","b","a","n">>, <<"p","r","e","v","e","n","t","i","v","i">> >>,
    critical_window |-> 300, default_window |-> 200, short_word |-> 3 ]

MoliseCrawler == [
    document_target_words |-> <<
        <<"c","a","r","t","a"," ","d","'","i","d","e","n","t","i","t","à">>, <<"d","o","c","u","m","e","n","t","o"," ","i","d","e","n","t","i","t","à">>, <<"c","o","p","i","a"," ","c","a","r","t","a"," ","i","d","e","n","t","i","t","à">>,
        <<"c","o","d","i","c","e"," ","f","i","s","c","a","l","e">>, <<"C","F">>, <<"d","o","c","u","m","e","n","t","o"," ","s","o","c","i">>, <<"d","o","c","u","m","e","n","t","i"," ","a","n","a","g","r","a","f","i","c","i">>,
        <<"a","t","t","r","i","b","u","z","i","o","n","e"," ","c","o","d","i","c","e"," ","f","i","s","c","a","l","e">>, <<"c","e","r","t","i","f","i","c","a","t","o"," ","c","o","d","i","c","e"," ","f","i","s","c","a","l","e">>,
        <<"c","e","r","t","i","f","i","c","a","t","o"," ","p","a","r","t","i","t","a"," ","I","V","A">>, <<"a","t","t","r","i","b","u","z","i","o","n","e"," ","P",".","I","V","A">>, <<"p","a","r","t","i","t","a"," ","I","V","A">>,
        <<"r","e","g","i","s","t","r","o"," ","i","m","p","r","e","s","e">>, <<"i","s","c","r","i","z","i","o","n","e"," ","C","C","I","A","A">>, <<"c","e","r","t","i","f","i","c","a","t","o"," ","c","a","m","e","r","a"," ","c","o","m","m","e","r","c","i","o">>,
        <<"v","i","s","u","r","a"," ","C","C","I","A","A">>, <<"v","i","s","u","r","a"," ","c","a","m","e","r","a","l","e">>, <<"v","i","s","u","r","a"," ","o","r","d","i","n","a","r","i","a">>, <<"v","i","s","u","r","a"," ","i","m","m","o","b","i","l","e">>,
        <<"v","i","s","u","r","a"," ","c","a","t","a","s","t","a","l","e">>, <<"d","o","c","u","m","e","n","t","o"," ","c","a","t","a","s","t","a","l","e">>, <<"a","t","t","o"," ","c","o","s","t","i","t","u","t","i","v","o">>, <<"s","t","a","t","u","t","o"," ","s","o","c","i","e","t","à">>,
        <<"a","t","t","i"," ","s","o","c","i","a","l","i">>, <<"a","t","t","o"," ","n","o","m","i","n","a"," ","r","a","p","p","r","e","s","e","n","t","a","n","t","e">>, <<"n","o","m","i","n","a"," ","a","m","m","i","n","i","s","t","r","a","t","o","r","e">>,
        <<"d","e","l","e","g","a"," ","f","i","r","m","a">>, <<"d","e","l","e","g","a"," ","s","o","t","t","o","s","c","r","i","z","i","o","n","e">>, <<"d","e","l","e","g","a"," ","r","a","p","p","r","e","s","e","n","t","a","n","z","a">>, <<"D","S","A","N">>,
        <<"d","i","c","h","i","a","r","a","z","i","o","n","e"," ","s","o","s","t","i","t","u","t","i","v","a">>, <<"a","u","t","o","c","e","r","t","i","f","i","c","a","z","i","o","n","e">>, <<"d","i","c","h","i","a","r","a","z","i","o","n","e"," ","d","'","i","n","t","e","n","t","i">>,
        <<"m","a","n","i","f","e","s","t","a","z","i","o","n","e"," ","d","i"," ","i","n","t","e","r","e","s","s","e">>, <<"c","e","r","t","i","f","i","c","a","t","o"," ","c","a","s","e","l","l","a","r","i","o">>, <<"c","a","s","e","l","l","a","r","i","o"," ","p","e","n","a","l","e">>,
        <<"a","s","s","e","n","z","a"," ","c","o","n","d","a","n","n","e"," ","p","e","n","a","l","i">>, <<"D","U","R","C">>, <<"d","o","c","u","m","e","n","t","o"," ","r","e","g","o","l","a","r","i","t","à"," ","c","o","n","t","r","i","b","u","t","i","v","a">>,
        <<"r","e","g","o","l","a","r","i","t","à"," ","c","o","n","t","r","i","b","u","t","i","v","a">>, <<"c","e","r","t","i","f","i","c","a","t","o"," ","f","i","s","c","a","l","e">>, <<"r","e","g","o","l","a","r","i","t","à"," ","f","i","s","c","a","l","e">>,
        <<"a","s","s","e","n","z","a"," ","c","a","r","i","c","h","i"," ","p","e","n","d","e","n","t","i">>, <<"d","i","c","h","i","a","r","a","z","i","o","n","e"," ","a","n","t","i","r","i","c","i","c","l","a","g","g","i","o">>,
        <<"d","i","c","h","i","a","r","a","z","i","o","n","e"," ","a","n","t","i","m","a","f","i","a">>, <<"c","o","n","t","r","i","b","u","t","o"," ","A","N","A","C">>, <<"p","a","g","a","m","e","n","t","o"," ","A","N","A","C">>, <<"r","i","c","e","v","u","t","a"," ","A","N","A","C">>,
        <<"p","i","a","n","o"," ","f","i","n","a","n","z","i","a","r","i","o">>, <<"b","u","d","g","e","t">>, <<"p","r","e","v","e","n","t","i","v","o"," ","e","c","o","n","o","m","i","c","o">>, <<"b","i","l","a","n","c","i","o">>,
        <<"s","t","a","t","o"," ","p","a","t","r","i","m","o","n","i","a","l","e">>, <<"s","i","t","u","a","z","i","o","n","e"," ","e","c","o","n","o","m","i","c","o","-","p","a","t","r","i","m","o","n","i","a","l","e">>, <<"d","i","c","h","i","a","r","a","z","i","o","n","e"," ","r","e","d","d","i","t","i">>,
        <<"m","o","d","e","l","l","o"," ","R","e","d","d","i","t","i">>, <<"7","3","0">>, <<"d","i","c","h","i","a","r","a","z","i","o","n","i"," ","I","V","A">>, <<"I","V","A"," ","a","n","n","u","a","l","e">>, <<"m","o","d","e","l","l","o"," ","I","V","A">>,
        <<"f","i","d","e","i","u","s","s","i","o","n","e"," ","b","a","n","c","a","r","i","a">>, <<"f","i","d","e","i","u","s","s","i","o","n","e"," ","a","s","s","i","c","u","r","a","t","i","v","a">>, <<"g","a","r","a","n","z","i","a"," ","f","i","d","e","i","u","s","s","o","r","i","a">>,
        <<"r","i","c","e","v","u","t","e"," ","p","a","g","a","m","e","n","t","o">>, <<"p","r","o","v","a"," ","p","a","g","a","m","e","n","t","o">>, <<"q","u","i","e","t","a","n","z","e"," ","p","a","g","a","m","e","n","t","o">>, <<"f","a","t","t","u","r","e">>,
        <<"f","a","t","t","u","r","e"," ","e","l","e","t","t","r","o","n","i","c","h","e">>, <<"f","a","t","t","u","r","e"," ","P","A">>, <<"e","-","f","a","t","t","u","r","e">>, <<"g","i","u","s","t","i","f","i","c","a","t","i","v","i"," ","d","i"," ","s","p","e","s","a">>,
        <<"d","o","c","u","m","e","n","t","i"," ","d","i"," ","s","p","e","s","a">>, <<"p","e","z","z","e"," ","g","i","u","s","t","i","f","i","c","a","t","i","v","e">>, <<"s","c","h","e","d","a"," ","p","r","o","g","e","t","t","o">>,
        <<"s","i","n","t","e","s","i"," ","p","r","o","g","e","t","t","o">>, <<"s","c","h","e","d","a"," ","d","e","s","c","r","i","t","t","i","v","a">>, <<"p","r","o","g","r","a","m","m","a"," ","o","p","e","r","a","t","i","v","o">>,
        <<"c","r","o","n","o","p","r","o","g","r","a","m","m","a">>, <<"p","i","a","n","o"," ","a","t","t","i","v","i","t","à">>, <<"d","i","a","g","r","a","m","m","a"," ","d","i"," ","G","a","n","t","t">>, <<"g","a","n","t","t"," ","c","h","a","r","t">>,
        <<"t","i","m","e","l","i","n","e"," ","p","r","o","g","e","t","t","o">>, <<"r","e","l","a","z","i","o","n","e"," ","f","i","n","a","l","e">>, <<"r","e","p","o","r","t"," ","f","i","n","a","l","e">>,
        <<"r","e","n","d","i","c","o","n","t","a","z","i","o","n","e"," ","f","i","n","a","l","e">>, <<"r","e","l","a","z","i","o","n","e"," ","l","a","v","o","r","i">>, <<"r","e","l","a","z","i","o","n","e"," ","a","t","t","i","v","i","t","à">>,
        <<"s","t","a","t","o"," ","a","v","a","n","z","a","m","e","n","t","o"," ","l","a","v","o","r","i">>, <<"P","S","C">>, <<"p","i","a","n","o"," ","s","i","c","u","r","e","z","z","a">>,
        <<"d","o","c","u","m","e","n","t","o"," ","c","o","o","r","d","i","n","a","m","e","n","t","o"," ","s","i","c","u","r","e","z","z","a">>, <<"d","i","c","h","i","a","r","a","z","i","o","n","e"," ","l","o","c","a","l","i","z","z","a","z","i","o","n","e">>,
        <<"u","b","i","c","a","z","i","o","n","e"," ","i","n","t","e","r","v","e","n","t","o">>, <<"a","s","s","e","n","s","o"," ","p","r","o","p","r","i","e","t","a","r","i","o">>, <<"d","i","c","h","i","a","r","a","z","i","o","n","e"," ","c","o","n","s","e","n","s","o">>,
        <<"n","u","l","l","a"," ","o","s","t","a"," ","p","r","o","p","r","i","e","t","à">>, <<"c","o","n","t","r","a","t","t","o"," ","a","f","f","i","t","t","o">>, <<"c","o","n","t","r","a","t","t","o"," ","l","o","c","a","z","i","o","n","e">>,
        <<"c","o","n","t","r","a","t","t","o"," ","c","o","m","o","d","a","t","o">>, <<"p","r","o","g","e","t","t","o"," ","i","m","p","r","e","s","a">>, <<"b","u","s","i","n","e","s","s"," ","p","l","a","n">>, <<"p","i","a","n","o"," ","d","'","i","m","p","r","e","s","a">>,
        <<"p","i","t","c","h">>, <<"p","r","e","s","e","n","t","a","z","i","o","n","e"," ","s","i","n","t","e","t","i","c","a">>, <<"e","l","e","v","a","t","o","r"," ","p","i","t","c","h">>, <<"p","i","t","c","h"," ","d","e","c","k">>, <<"C","V"," ","t","e","a","m">>,
        <<"c","u","r","r","i","c","u","l","u","m">>, <<"p","r","o","f","i","l","o"," ","f","o","n","d","a","t","o","r","i">>, <<"a","t","t","e","s","t","a","t","o"," ","c","o","r","s","o">>, <<"a","t","t","e","s","t","a","t","o"," ","f","o","r","m","a","z","i","o","n","e">>,
        <<"c","e","r","t","i","f","i","c","a","t","o"," ","p","a","r","t","e","c","i","p","a","z","i","o","n","e">>, <<"c","e","r","t","i","f","i","c","a","z","i","o","n","e"," ","q","u","a","l","i","t","à">>, <<"c","e","r","t","i","f","i","c","a","t","o"," ","I","S","O">>,
        <<"c","e","r","t","i","f","i","c","a","t","o"," ","c","o","n","f","o","r","m","i","t","à">>, <<"c","o","n","f","o","r","m","i","t","à"," ","i","m","p","i","a","n","t","o">>, <<"c","o","n","f","o","r","m","i","t","à"," ","n","o","r","m","a","t","i","v","a">>,
        <<"a","t","t","e","s","t","a","z","i","o","n","e"," ","S","O","A">>, <<"c","e","r","t","i","f","i","c","a","z","i","o","n","e"," ","S","O","A">>, <<"q","u","a","l","i","f","i","c","a","z","i","o","n","e"," ","p","e","r"," ","a","p","p","a","l","t","i"," ","p","u","b","b","l","i","c","i">>,
        <<"b","r","e","v","e","t","t","o">>, <<"c","e","r","t","i","f","i","c","a","t","o"," ","d","i"," ","b","r","e","v","e","t","t","o">>, <<"t","i","t","o","l","o"," ","b","r","e","v","e","t","t","u","a","l","e">>, <<"I","B","A","N">>,
        <<"c","e","r","t","i","f","i","c","a","t","o"," ","I","B","A","N">>, <<"c","o","o","r","d","i","n","a","t","e"," ","b","a","n","c","a","r","i","e">> >>,
    validation_keywords |-> <<
        <<"a","l","l","e","g","a","r","e">>, <<"a","l","l","e","g","a","t","o">>, <<"p","r","e","s","e","n","t","a","r","e">>, <<"p","r","e","s","e","n","t","a","z","i","o","n","e">>, <<"f","o","r","n","i","r","e">>,
        <<"o","b","b","l","i","g","a","t","o","r","i","o">>, <<"n","e","c","e","s","s","a","r","i","o">>, <<"r","i","c","h","i","e","s","t","o">>, <<"d","o","c","u","m","e","n","t","a","z","i","o","n","e">>, <<"c","o","n","s","e","g","n","a","r","e">>,
        <<"p","r","o","d","u","r","r","e">>, <<"t","r","a","s","m","e","t","t","e","r","e">>, <<"a","c","c","o","m","p","a","g","n","a","t","o"," ","d","a">>, <<"c","o","r","r","e","d","a","t","o"," ","d","a">>, <<"d","a"," ","p","r","e","s","e","n","t","a","r","e">>,
        <<"d","o","v","r","a","n","n","o"," ","e","s","s","e","r","e"," ","a","l","l","e","g","a","t","i">>, <<"è"," ","r","i","c","h","i","e","s","t","o">>, <<"è"," ","n","e","c","e","s","s","a","r","i","o">>,
        <<"d","e","v","e"," ","e","s","s","e","r","e"," ","a","l","l","e","g","a","t","o">>, <<"v","a"," ","a","l","l","e","g","a","t","o">>, <<"d","o","c","u","m","e","n","t","i"," ","d","a"," ","a","l","l","e","g","a","r","e">>, <<"è"," ","o","b","b","l","i","g","a","t","o","r","i","o">>,
        <<"c","o","m","p","l","e","t","o"," ","d","i">>, <<"c","o","m","p","r","e","n","s","i","v","o"," ","d","i">>, <<"d","e","v","e"," ","r","i","p","o","r","t","a","r","e">>, <<"d","a"," ","c","o","m","p","i","l","a","r","e">>,
        <<"d","a"," ","f","i","r","m","a","r","e">>, <<"f","i","r","m","a","t","o">>, <<"s","o","t","t","o","s","c","r","i","t","t","o">>, <<"v","a"," ","p","r","e","s","e","n","t","a","t","o">>, <<"s","i"," ","r","i","c","h","i","e","d","e">>,
        <<"s","a","r","à"," ","n","e","c","e","s","s","a","r","i","o">>, <<"d","o","c","u","m","e","n","t","o"," ","r","i","c","h","i","e","s","t","o">>, <<"d","a"," ","t","r","a","s","m","e","t","t","e","r","e">>, <<"o","c","c","o","r","r","e"," ","p","r","e","s","e","n","t","a","r","e">>,
        <<"d","o","c","u","m","e","n","t","o"," ","o","b","b","l","i","g","a","t","o","r","i","o">>, <<"i","n","s","i","e","m","e"," ","a">>, <<"c","o","p","i","a">>, <<"f","i","l","e">>, <<"m","o","d","u","l","o">> >>,
    exclusion_contexts |-> <<
        <<"n","o","n"," ","è"," ","n","e","c","e","s","s","a","r","i","o">>, <<"n","o","n"," ","è"," ","r","i","c","h","i","e","s","t","o">>, <<"n","o","n"," ","o","b","b","l","i","g","a","t","o","r","i","o">>, <<"f","a","c","o","l","t","a","t","i","v","o">>,
        <<"n","o","n"," ","è"," ","o","b","b","l","i","g","a","t","o","r","i","o">>, <<"n","o","n"," ","d","e","v","e"," ","e","s","s","e","r","e"," ","a","l","l","e","g","a","t","o">>, <<"n","o","n"," ","s","a","r","à"," ","r","i","c","h","i","e","s","t","o">>,
        <<"n","o","n"," ","s","o","n","o"," ","r","i","c","h","i","e","s","t","i">>, <<"o","p","z","i","o","n","a","l","e">> >>,
    critical_documents |-> <<
        <<"c","o","d","i","c","e"," ","f","i","s","c","a","l","e">>, <<"c","a","r","t","a"," ","d","'","i","d","e","n","t","i","t","à">>, <<"d","o","c","u","m","e","n","t","o"," ","i","d","e","n","t","i","t","à">>, <<"p","a","r","t","i","t","a"," ","i","v","a">>,
        <<"v","i","s","u","r","a"," ","c","a","m","e","r","a","l","e">>, <<"d","u","r","c">>, <<"i","b","a","n">>, <<"p","r","e","v","e","n","t","i","v","i">> >>,
    critical_window |-> 300, default_window |-> 200, short_word |-> 3 ]

ValleDAostaCrawler_one_window ==
    [MoliseCrawler EXCEPT !.default_window = MoliseCrawler.critical_window]

ValleDAostaCrawler == [
    document_target_words |-> <<
        <<"c","a","r","t","a"," ","d","'","i","d","e","n","t","i","t","à">>, <<"d","o","c","u","m","e","n","t","o"," ","i","d","e","n","t","i","t","à">>, <<"c","o","p","i","a"," ","c","a","r","t","a"," ","i","d","e","n","t","i","t","à">>,
        <<"c","o","d","i","c","e"," ","f","i","s","c","a","l","e">>, <<"C","F">>, <<"d","o","c","u","m","e","n","t","o"," ","s","o","c","i">>, <<"d","o","c","u","m","e","n","t","i"," ","a","n","a","g","r","a","f","i","c","i">>,
        <<"a","t","t","r","i","b","u","z","i","o","n","e"," ","c","o","d","i","c","e"," ","f","i","s","c","a","l","e">>, <<"c","e","r","t","i","f","i","c","a","t","o"," ","c","o","d","i","c","e"," ","f","i","s","c","a","l","e">>,
        <<"c","e","r","t","i","f","i","c","a","t","o"," ","p","a","r","t","i","t","a"," ","I","V","A">>, <<"a","t","t","r","i","b","u","z","i","o","n","e"," ","P",".","I","V","A">>, <<"p","a","r","t","i","t","a"," ","I","V","A">>,
        <<"r","e","g","i","s","t","r","o"," ","i","m","p","r","e","s","e">>, <<"i","s","c","r","i","z","i","o","n","e"," ","C","C","I","A","A">>, <<"c","e","r","t","i","f","i","c","a","t","o"," ","c","a","m","e","r","a"," ","c","o","m","m","e","r","c","i","o">>,
        <<"v","i","s","u","r","a"," ","C","C","I","A","A">>, <<"v","i","s","u","r","a"," ","c","a","m","e","r","a","l","e">>, <<"v","i","s","u","r","a"," ","o","r","d","i","n","a","r","i","a">>, <<"v","i","s","u","r","a"," ","i","m","m","o","b","i","l","e">>,
        <<"v","i","s","u","r","a"," ","c","a","t","a","s","t","a","l","e">>, <<"d","o","c","u","m","e","n","t","o"," ","c","a","t","a","s","t","a","l","e">>, <<"a","t","t","o"," ","c","o","s","t","i","t","u","t","i","v","o">>, <<"s","t","a","t","u","t","o"," ","s","o","c","i","e","t","à">>,
        <<"a","t","t","i"," ","s","o","c","i","a","l","i">>, <<"a","t","t","o"," ","n","o","m","i","n","a"," ","r","a","p","p","r","e","s","e","n","t","a","n","t","e">>, <<"n","o","m","i","n","a"," ","a","m","m","i","n","i","s","t","r","a","t","o","r","e">>,
        <<"d","e","l","e","g","a"," ","f","i","r","m","a">>, <<"d","e","l","e","g","a"," ","s","o","t","t","o","s","c","r","i","z","i","o","n","e">>, <<"d","e","l","e","g","a"," ","r","a","p","p","r","e","s","e","n","t","a","n","z","a">>, <<"D","S","A","N">>,
        <<"d","i","c","h","i","a","r","a","z","i","o","n","e"," ","s","o","s","t","i","t","u","t","i","v","a">>, <<"a","u","t","o","c","e","r","t","i","f","i","c","a","z","i","o","n","e">>, <<"d","i","c","h","i","a","r","a","z","i","o","n","e"," ","d","'","i","n","t","e","n","t","i">>,
        <<"m","a","n","i","f","e","s","t","a","z","i","o","n","e"," ","d","i"," ","i","n","t","e","r","e","s","s","e">>, <<"c","e","r","t","i","f","i","c","a","t","o"," ","c","a","s","e","l","l","a","r","i","o">>, <<"c","a","s","e","l","l","a","r","i","o"," ","p","e","n","a","l","e">>,
        <<"a","s","s","e","n","z","a"," ","c","o","n","d","a","n","n","e"," ","p","e","n","a","l","i">>, <<"D","U","R","C">>, <<"d","o","c","u","m","e","n","t","o"," ","r","e","g","o","l","a","r","i","t","à"," ","c","o","n","t","r","i","b","u","t","i","v","a">>,
        <<"r","e","g","o","l","a","r","i","t","à"," ","c","o","n","t","r","i","b","u","t","i","v","a">>, <<"c","e","r","t","i","f","i","c","a","t","o"," ","f","i","s","c","a","l","e">>, <<"r","e","g","o","l","a","r","i","t","à"," ","f","i","s","c","a","l","e">>,
        <<"a","s","s","e","n","z","a"," ","c","a","r","i","c","h","i"," ","p","e","n","d","e","n","t","i">>, <<"d","i","c","h","i","a","r","a","z","i","o","n","e"," ","a","n","t","i","r","i","c","i","c","l","a","g","g","i","o">>,
        <<"d","i","c","h","i","a","r","a","z","i","o","n","e"," ","a","n","t","i","m","a","f","i","a">>, <<"c","o","n","t","r","i","b","u","t","o"," ","A","N","A","C">>, <<"p","a","g","a","m","e","n","t","o"," ","A","N","A","C">>, <<"r","i","c","e","v","u","t","a"," ","A","N","A","C">>,
        <<"p","i","a","n","o"," ","f","i","n","a","n","z","i","a","r","i","o">>, <<"b","u","d","g","e","t">>, <<"p","r","e","v","e","n","t","i","v","o"," ","e","c","o","n","o","m","i","c","o">>, <<"b","i","l","a","n","c","i","o">>,
        <<"s","t","a","t","o"," ","p","a","t","r","i","m","o","n","i","a","l","e">>, <<"s","i","t","u","a","z","i","o","n","e"," ","e","c","o","n","o","m","i","c","o","-","p","a","t","r","i","m","o","n","i","a","l","e">>, <<"d","i","c","h","i","a","r","a","z","i","o","n","e"," ","r","e","d","d","i","t","i">>,
        <<"m","o","d","e","l","l","o"," ","R","e","d","d","i","t","i">>, <<"7","3","0">>, <<"d","i","c","h","i","a","r","a","z","i","o","n","i"," ","I","V","A">>, <<"I","V","A"," ","a","n","n","u","a","l","e">>, <<"m","o","d","e","l","l","o"," ","I","V","A">>,
        <<"f","i","d","e","i","u","s","s","i","o","n","e"," ","b","a","n","c","a","r","i","a">>, <<"f","i","d","e","i","u","s","s","i","o","n","e"," ","a","s","s","i","c","u","r","a","t","i","v","a">>, <<"g","a","r","a","n","z","i","a"," ","f","i","d","e","i","u","s","s","o","r","i","a">>,
        <<"r","i","c","e","v","u","t","e"," ","p","a","g","a","m","e","n","t","o">>, <<"p","r","o","v","a"," ","p","a","g","a","m","e","n","t","o">>, <<"q","u","i","e","t","a","n","z","e"," ","p","a","g","a","m","e","n","t","o">>, <<"f","a","t","t","u","r","e">>,
        <<"f","a","t","t","u","r","e"," ","e","l","e","t","t","r","o","n","i","c","h","e">>, <<"f","a","t","t","u","r","e"," ","P","A">>, <<"e","-","f","a","t","t","u","r","e">>, <<"g","i","u","s","t","i","f","i","c","a","t","i","v","i"," ","d","i"," ","s","p","e","s","a">>,
        <<"d","o","c","u","m","e","n","t","i"," ","d","i"," ","s","p","e","s","a">>, <<"p","e","z","z","e"," ","g","i","u","s","t","i","f","i","c","a","t","i","v","e">>, <<"s","c","h","e","d","a"," ","p","r","o","g","e","t","t","o">>,
        <<"s","i","n","t","e","s","i"," ","p","r","o","g","e","t","t","o">>, <<"s","c","h","e","d","a"," ","d","e","s","c","r","i","t","t","i","v","a">>, <<"p","r","o","g","r","a","m","m","a"," ","o","p","e","r","a","t","i","v","o">>,
        <<"c","r","o","n","o","p","r","o","g","r","a","m","m","a">>, <<"p","i","a","n","o"," ","a","t","t","i","v","i","t","à">>, <<"d","i","a","g","r","a","m","m","a"," ","d","i"," ","G","a","n","t","t">>, <<"g","a","n","t","t"," ","c","h","a","r","t">>,
        <<"t","i","m","e","l","i","n","e"," ","p","r","o","g","e","t","t","o">>, <<"r","e","l","a","z","i","o","n","e"," ","f","i","n","a","l","e">>, <<"r","e","p","o","r","t"," ","f","i","n","a","l","e">>,
        <<"r","e","n","d","i","c","o","n","t","a","z","i","o","n","e"," ","f","i","n","a","l","e">>, <<"r","e","l","a","z","i","o","n","e"," ","l","a","v","o","r","i">>, <<"r","e","l","a","z","i","o","n","e"," ","a","t","t","i","v","i","t","à">>,
        <<"s","t","a","t","o"," ","a","v","a","n","z","a","m","e","n","t","o"," ","l","a","v","o","r","i">>, <<"P","S","C">>, <<"p","i","a","n","o"," ","s","i","c","u","r","e","z","z","a">>,
        <<"d","o","c","u","m","e","n","t","o"," ","c","o","o","r","d","i","n","a","m","e","n","t","o"," ","s","i","c","u","r","e","z","z","a">>, <<"d","i","c","h","i","a","r","a","z","i","o","n","e"," ","l","o","c","a","l","i","z","z","a","z","i","o","n","e">>,
        <<"u","b","i","c","a","z","i","o","n","e"," ","i","n","t","e","r","v","e","n","t","o">>, <<"a","s","s","e","n","s","o"," ","p","r","o","p","r","i","e","t","a","r","i","o">>, <<"d","i","c","h","i","a","r","a","z","i","o","n","e"," ","c","o","n","s","e","n","s","o">>,
        <<"n","u","l","l","a"," ","o","s","t","a"," ","p","r","o","p","r","i","e","t","à">>, <<"c","o","n","t","r","a","t","t","o"," ","a","f","f","i","t","t","o">>, <<"c","o","n","t","r","a","t","t","o"," ","l","o","c","a","z","i","o","n","e">>,
        <<"c","o","n","t","r","a","t","t","o"," ","c","o","m","o","d","a","t","o">>, <<"p","r","o","g","e","t","t","o"," ","i","m","p","r","e","s","a">>, <<"b","u","s","i","n","e","s","s"," ","p","l","a","n">>, <<"p","i","a","n","o"," ","d","'","i","m","p","r","e","s","a">>,
        <<"p","i","t","c","h">>, <<"p","r","e","s","e","n","t","a","z","i","o","n","e"," ","s","i","n","t","e","t","i","c","a">>, <<"e","l","e","v","a","t","o","r"," ","p","i","t","c","h">>, <<"p","i","t","c","h"," ","d","e","c","k">>, <<"C","V"," ","t","e","a","m">>,
        <<"c","u","r","r","i","c","u","l","u","m">>, <<"p","r","o","f","i","l","o"," ","f","o","n","d","a","t","o","r","i">>, <<"a","t","t","e","s","t","a","t","o"," ","c","o","r","s","o">>, <<"a","t","t","e","s","t","a","t","o"," ","f","o","r","m","a","z","i","o","n","e">>,
        <<"c","e","r","t","i","f","i","c","a","t","o"," ","p","a","r","t","e","c","i","p","a","z","i","o","n","e">>, <<"c","e","r","t","i","f","i","c","a","z","i","o","n","e"," ","q","u","a","l","i","t","à">>, <<"c","e","r","t","i","f","i","c","a","t","o"," ","I","S","O">>,
        <<"c","e","r","t","i","f","i","c","a","t","o"," ","c","o","n","f","o","r","m","i","t","à">>, <<"c","o","n","f","o","r","m","i","t","à"," ","i","m","p","i","a","n","t","o">>, <<"c","o","n","f","o","r","m","i","t","à"," ","n","o","r","m","a","t","i","v","a">>,
        <<"a","t","t","e","s","t","a","z","i","o","n","e"," ","S","O","A">>, <<"c","e","r","t","i","f","i","c","a","z","i","o","n","e"," ","S","O","A">>, <<"q","u","a","l","i","f","i","c","a","z","i","o","n","e"," ","p","e","r"," ","a","p","p","a","l","t","i"," ","p","u","b","b","l","i","c","i">>,
        <<"b","r","e","v","e","t","t","o">>, <<"c","e","r","t","i","f","i","c","a","t","o"," ","d","i"," ","b","r","e","v","e","t","t","o">>, <<"t","i","t","o","l","o"," ","b","r","e","v","e","t","t","u","a","l","e">>, <<"I","B","A","N">>,
        <<"c","e","r","t","i","f","i","c","a","t","o"," ","I","B","A","N">>, <<"c","o","o","r","d","i","n","a","t","e"," ","b","a","n","c","a","r","i","e">> >>,
    validation_keywords |-> <<
        <<"a","l","l","e","g","a","r","e">>, <<"a","l","l","e","g","a","t","o">>, <<"p","r","e","s","e","n","t","a","r","e">>, <<"p","r","e","s","e","n","t","a","z","i","o","n","e">>, <<"f","o","r","n","i","r","e">>,
        <<"o","b","b","l","i","g","a","t","o","r","i","o">>, <<"n","e","c","e","s","s","a","r","i","o">>, <<"r","i","c","h","i","e","s","t","o">>, <<"d","o","c","u","m","e","n","t","a","z","i","o","n","e">>, <<"c","o","n","s","e","g","n","a","r","e">>,
        <<"p","r","o","d","u","r","r","e">>, <<"t","r","a","s","m","e","t","t","e","r","e">>, <<"a","c","c","o","m","p","a","g","n","a","t","o"," ","d","a">>, <<"c","o","r","r","e","d","a","t","o"," ","d","a">>, <<"d","a"," ","p","r","e","s","e","n","t","a","r","e">>,
        <<"d","o","v","r","a","n","n","o"," ","e","s","s","e","r","e"," ","a","l","l","e","g","a","t","i">>, <<"è"," ","r","i","c","h","i","e","s","t","o">>, <<"è"," ","n","e","c","e","s","s","a","r","i","o">>,
        <<"d","e","v","e"," ","e","s","s","e","r","e"," ","a","l","l","e","g","a","t","o">>, <<"v","a"," ","a","l","l","e","g","a","t","o">>, <<"d","o","c","u","m","e","n","t","i"," ","d","a"," ","a","l","l","e","g","a","r","e">>, <<"è"," ","o","b","b","l","i","g","a","t","o","r","i","o">>,
        <<"c","o","m","p","l","e","t","o"," ","d","i">>, <<"c","o","m","p","r","e","n","s","i","v","o"," ","d","i">>, <<"d","e","v","e"," ","r","i","p","o","r","t","a","r","e">>, <<"d","a"," ","c","o","m","p","i","l","a","r","e">>,
        <<"d","a"," ","f","i","r","m","a","r","e">>, <<"f","i","r","m","a","t","o">>, <<"s","o","t","t","o","s","c","r","i","t","t","o">>, <<"v","a"," ","p","r","e","s","e","n","t","a","t","o">>, <<"s","i"," ","r","i","c","h","i","e","d","e">>,
        <<"s","a","r","à"," ","n","e","c","e","s","s","a","r","i","o">>, <<"d","o","c","u","m","e","n","t","o"," ","r","i","c","h","i","e","s","t","o">>, <<"d","a"," ","t","r","a","s","m","e","t","t","e","r","e">>, <<"o","c","c","o","r","r","e"," ","p","r","e","s","e","n","t","a","r","e">>,
        <<"d","o","c","u","m","e","n","t","o"," ","o","b","b","l","i","g","a","t","o","r","i","o">>, <<"i","n","s","i","e","m","e"," ","a">>, <<"c","o","p","i","a">>, <<"f","i","l","e">>, <<"m","o","d","u","l","o">> >>,
    exclusion_contexts |-> <<
        <<"n","o","n"," ","è"," ","n","e","c","e","s","s","a","r","i","o">>, <<"n","o","n"," ","è"," ","r","i","c","h","i","e","s","t","o">>, <<"n","o","n"," ","o","b","b","l","i","g","a","t","o","r","i","o">>, <<"f","a","c","o","l","t","a","t","i","v","o">>,
        <<"n","o","n"," ","è"," ","o","b","b","l","i","g","a","t","o","r","i","o">>, <<"n","o","n"," ","d","e","v","e"," ","e","s","s","e","r","e"," ","a","l","l","e","g","a","t","o">>, <<"n","o","n"," ","s","a","r","à"," ","r","i","c","h","i","e","s","t","o">>,
        <<"n","o","n"," ","s","o","n","o"," ","r","i","c","h","i","e","s","t","i">>, <<"o","p","z","i","o","n","a","l","e">> >>,
    critical_documents |-> <<
        <<"c","o","d","i","c","e"," ","f","i","s","c","a","l","e">>, <<"c","a","r","t","a"," ","d","'","i","d","e","n","t","i","t","à">>, <<"d","o","c","u","m","e","n","t","o"," ","i","d","e","n","t","i","t","à">>, <<"p","a","r","t","i","t","a"," ","i","v","a">>,
        <<"v","i","s","u","r","a"," ","c","a","m","e","r","a","l","e">>, <<"d","u","r","c">>, <<"i","b","a","n">>, <<"p","r","e","v","e","n","t","i","v","i">> >>,
    critical_window |-> 300, default_window |-> 200, short_word |-> 3 ]
Adapters == <<LombardiaCrawler, MoliseCrawler, ValleDAostaCrawler>>

\* the body of `for match in matches` of the adapter self, for the match at i
match_contexts_of(self, s, target_lower, i) ==
    LET m == Len(target_lower)
        is_critical == \E k \in 1..Len(self.critical_documents) :
                          self.critical_documents[k] = target_lower
        w == IF is_critical THEN self.critical_window ELSE self.default_window
        first == Max(1, i - w)
        last == Min(Len(s), i + m - 1 + w)
        context == SubSeq(s, first, last)
        highlighted == Dots \o SubSeq(s, first, i - 1) \o Stars \o SubSeq(s, i, i + m - 1)
                       \o Stars \o SubSeq(s, i + m, last) \o Dots
    IN  IF any_in(self.exclusion_contexts, context) THEN <<>>
        ELSE IF any_in(self.validation_keywords, context) THEN <<highlighted>>
        ELSE <<>>

RECURSIVE matches_contexts_of(_, _, _, _, _)
matches_contexts_of(self, s, target_lower, matches, k) ==
    IF k > Len(matches) THEN <<>>
    ELSE match_contexts_of(self, s, target_lower, matches[k])
         \o matches_contexts_of(self, s, target_lower, matches, k + 1)

target_contexts_any_length_of(self, s, target) ==
    LET target_lower == lower(target)
    IN  IF ~Contains(s, target_lower) THEN <<>>
        ELSE matches_contexts_of(self, s, target_lower, finditer(s, target_lower, 1), 1)

target_contexts_of(self, s, target) ==
    LET target_lower == lower(target)
    IN  IF ~Contains(s, target_lower) THEN <<>>
        ELSE IF ~((\E k \in 1..Len(target_lower) : target_lower[k] = " ")
                  \/ Len(target_lower) > self.short_word)
        THEN <<>>
        ELSE matches_contexts_of(self, s, target_lower, finditer(s, target_lower, 1), 1)

\* the loop `for target in target_words`: the targets with a confirmed
\* occurrence, in catalog order, and their contexts
target_loop_of(self, s, target_words) ==
    LET found_words == SelectSeq(target_words, LAMBDA target : target_contexts_of(self, s, target) # <<>>)
    IN  Result(found_words,
               [target \in {found_words[k] : k \in 1..Len(found_words)} |->
                   target_contexts_of(self, s, target)])

\* self.find_target_words(text, target_words) of the adapter self
find_target_words_of(self, t, target_words) ==
    IF ~Truthy(t) THEN Result(<<>>, EmptyDict)
    ELSE IF t.t # "str" THEN Raise("AttributeError")
    ELSE IF strip(t.s) = <<>> THEN Result(<<>>, EmptyDict)
    ELSE target_loop_of(self, lower(t.s), target_words)

\* the pair each adapter returns for the same text and catalog
find_target_words_of_all(t, target_words) ==
    [a \in 1..Len(Adapters) |-> find_target_words_of(Adapters[a], t, target_words)]

----------------------------------------------------------------------------
(* validate_grant_data *)

required_fields == <<"Nome del bando", "Descrizione breve (Plain text)",
                     "Descrizione del bando", "Link Bando">>
url_fields == <<"Link al sito del bando", "Link Bando">>

\* data.get(field)
get(d, field) == IF field \in DOMAIN d THEN d[field] ELSE None

\* s.startswith(("http://", "https://"))
startswith(s, prefix) == Len(s) >= Len(prefix) /\ SubSeq(s, 1, Len(prefix)) = prefix
is_http(s) == startswith(s, <<"h","t","t","p",":","/","/">>) \/ startswith(s, <<"h","t","t","p","s",":","/","/">>)

\* the loop over required_fields from index k on: errors.append(f"Campo richiesto mancante: {field}")
RECURSIVE required_loop(_, _, _)
required_loop(d, k, errors) ==
    IF k > Len(required_fields) THEN errors
    ELSE required_loop(d, k + 1,
            IF ~Truthy(get(d, required_fields[k]))
            THEN Append(errors, "Campo richiesto mancante: " \o required_fields[k])
            ELSE errors)

url_step_unguarded(d, field, out) ==
    IF out.status # "ok" THEN out
    ELSE IF get(d, field).t # "str" THEN [out EXCEPT !.status = "AttributeError"]
    ELSE IF ~is_http(get(d, field).s)
         THEN [out EXCEPT !.errors = Append(@, "Formato URL non valido per: " \o field)]
         ELSE out

url_step_any_value(d, field, out) ==
    IF out.status # "ok" THEN out
    ELSE IF get(d, field).t = "str" /\ ~is_http(get(d, field).s)
         THEN [out EXCEPT !.errors = Append(@, "Formato URL non valido per: " \o field)]
         ELSE out

\* if data.get(field) and not data[field].startswith(...): errors.append(...)
url_step(d, field, out) ==
    IF out.status # "ok" \/ ~Truthy(get(d, field)) THEN out
    ELSE IF get(d, field).t # "str" THEN [out EXCEPT !.status = "AttributeError"]   \* no startswith
    ELSE IF ~is_http(get(d, field).s)
         THEN [out EXCEPT !.errors = Append(@, "Formato URL non valido per: " \o field)]
         ELSE out

\* the errors list, the exception if one is raised, and data as the call leaves it
validated(d) ==
    url_step(d, url_fields[2],
        url_step(d, url_fields[1],
            [status |-> "ok", errors |-> required_loop(d, 1, <<>>), data |-> d]))

\* return errors
returned_errors(out) == IF out.status = "ok" THEN List(out.errors) ELSE Raise(out.status)

validate_grant_data(d) == returned_errors(validated(d))
----------------------------------------------------------------------------
(* arguments the calls are made with *)

MaxNumLen == 4          \* extract_number: characters of the text
MaxPieces == 2          \* match_to_controlled_vocab: pieces of the text
MaxFindPieces == 3      \* find_target_words: pieces of the text
MaxList == 2            \* entries of vocab_list
MaxTargets == 2         \* entries of target_words
MaxRawKeys == 2         \* keys of raw_data
NumWorkers == 2         \* concurrent calls of process_grant_data
MaxCleanLen == 4        \* clean_text: characters of the text

\* sequences over S of length at most n
RECURSIVE SeqsUpTo(_, _)
SeqsUpTo(S, n) ==
    IF n = 0 THEN {<<>>}
    ELSE LET shorter == SeqsUpTo(S, n - 1)
         IN  shorter \cup {Append(q, x) : q \in {r \in shorter : Len(r) = n - 1}, x \in S}

\* concatenation of a sequence of strings
RECURSIVE Concat(_)
Concat(parts) == IF parts = <<>> THEN <<>> ELSE Head(parts) \o Concat(Tail(parts))

Filler == [i \in 1..250 |-> IF i % 2 = 1 THEN "." ELSE " "]

NumberChars == {"1", ".", ",", " ", "a"}
NumberExamples == {
    <<"€"," ","1",".","2","3","4",",","5","6">>, <<"n","e","s","s","u","n"," ","n","u","m","e","r","o">>, <<"€"," ","5","0","0",".","0","0","0",",","0","0"," ","c","o","m","p","l","e","s","s","i","v","i">>, <<"d","a"," ","1",".","0","0","0"," ","a"," ","5",".","0","0","0"," ","e","u","r","o">> }
NumberTexts ==
    {None, Float(5, 2), Float(0, 1)}
        \cup {Str(s) : s \in SeqsUpTo(NumberChars, MaxNumLen) \cup NumberExamples}

VocabTerms == {<<"P","M","I">>, <<"l","i","b","e","r","i"," ","p","r","o","f","e","s","s","i","o","n","i","s","t","i">>, <<"T","u","r","i","s","m","o">>}
VocabPieces == {<<"p","m","i"," ">>, <<"L","P"," ">>, <<"t","u","r","i","s","m","i"," ">>, <<"T","u","r","i","s","m","o"," ">>, <<"l","i","b","e","r","i"," ","p","r","o","f","e","s","s","i","o","n","i","s","t","i"," ">>}
VocabExamples == {<<"p","m","i"," ","s","o","n","o"," ","f","i","n","a","n","z","i","a","b","i","l","i">>}
VocabTexts ==
    {None} \cup {Str(Concat(ps)) : ps \in SeqsUpTo(VocabPieces, MaxPieces)}
           \cup {Str(s) : s \in VocabExamples}
VocabLists == SeqsUpTo(VocabTerms, MaxList)

TargetPhrases == {<<"c","o","d","i","c","e"," ","f","i","s","c","a","l","e">>, <<"b","i","l","a","n","c","i","o">>}
FindPieces == {<<"c","o","d","i","c","e"," ","f","i","s","c","a","l","e">>, <<"b","i","l","a","n","c","i","o">>, <<" ","a","l","l","e","g","a","r","e"," ">>, <<" ","f","a","c","o","l","t","a","t","i","v","o"," ">>, Filler}
FindExamples == {
    <<"è"," ","n","e","c","e","s","s","a","r","i","o"," ","a","l","l","e","g","a","r","e"," ","i","l"," ","c","o","d","i","c","e"," ","f","i","s","c","a","l","e"," ","d","e","l"," ","r","i","c","h","i","e","d","e","n","t","e">>,
    <<"n","o","n"," ","è"," ","n","e","c","e","s","s","a","r","i","o"," ","p","r","e","s","e","n","t","a","r","e"," ","i","l"," ","c","o","d","i","c","e"," ","f","i","s","c","a","l","e">>,
    <<" "," "," ">>,
    <<"b","i","l","a","n","c","i","o">> \o Filler \o <<" ","a","l","l","e","g","a","r","e"," ","i","l"," ","b","i","l","a","n","c","i","o"," ","e"," ","i","l"," ","B","i","l","a","n","c","i","o">>,
    <<"a","l","l","e","g","a","r","e"," ","i","l"," ","C","F",","," ","i","l"," ","p","r","e","b","i","l","a","n","c","i","o"," ","e"," ","i"," ","b","i","l","a","n","c","i">>,
    <<"i","l"," ","c","o","d","i","c","e"," ","f","i","s","c","a","l","e"," ","e"," ","i","l"," ","b","i","l","a","n","c","i","o">> \o Filler \o <<" ","a","l","l","e","g","a","r","e"," ">> \o Filler }
FindTexts ==
    {None} \cup {Str(Concat(ps)) : ps \in SeqsUpTo(FindPieces, MaxFindPieces)}
           \cup {Str(s) : s \in FindExamples}
TargetExamples == {<<<<"C","F">>>>, <<<<"C","o","d","i","c","e"," ","F","i","s","c","a","l","e">>, <<"C","F">>, <<"b","i","l","a","n","c","i","o">>>>}
TargetLists == SeqsUpTo(TargetPhrases, MaxTargets) \cup TargetExamples

RawKeys == {
    "Nome del bando", "Dotazione", "Data creazione", "Scadenza",
    "A chi si rivolge", "A chi si rivolge_MR", "Codice ateco", "extra" }
RawValues == {
    None, Str(<<>>), Float(5, 2),
    Str(<<"€"," ","1",".","2","3","4",",","5","6"," "," ","p","m","i">>), Str(<<"1","2","/","0","3","/","2","0","2","4">>), Str(<<"1",",","2",",","3"," ","s","e","z","i","o","n","e"," ","c"," ","A">>) }
RawExamples == {
    "Dotazione" :> Str(<<"€"," ","5","0","0",".","0","0","0",",","0","0"," ","c","o","m","p","l","e","s","s","i","v","i">>),
    "Codice ateco" :> Str(<<"s","e","z","i","o","n","e"," ","a">>),
    "Codice ateco" :> Str(<<"A","T","E","C","O"," ","6","2",".","0","1">>),
    "Codice ateco" :> Str(<<"C"," ","1","0",","," ","s","e","z","i","o","n","e"," ","F">>),
    "A chi si rivolge" :> Str(<<"l","i","b","e","r","i"," "," ","p","r","o","f","e","s","s","i","o","n","i","s","t","i"," ","e"," "," ","e","n","t","i"," ","p","u","b","b","l","i","c","i">>),
    ("Spese ammissibili" :> Str(<<"A","f","f","i","t","t","o",","," ","f","o","r","m","a","z","i","o","n","e"," ","d","e","l"," ","p","e","r","s","o","n","a","l","e"," ","d","i","p","e","n","d","e","n","t","e">>))
        @@ ("Spese ammissibili_MR" :> Str(<<"A","l","t","r","o">>)),
    ("Descrizione del bando" :> Str(<<"B","a","n","d","o"," ","p","e","r"," ","l","'","a","r","t","i","g","i","a","n","a","t","o"," ","e"," ","l","e"," ","c","o","n","s","u","l","e","n","z","e">>))
        @@ ("Settore_MR" :> Str(<<"A","l","t","r","o">>)),
    ("Settore_MR" :> Str(<<"A","g","r","i","c","o","l","t","u","r","a">>)) @@ ("Spese ammissibili_MR" :> None) }
RawMaps ==
    UNION {[K -> RawValues] : K \in {X \in SUBSET RawKeys : Cardinality(X) <= MaxRawKeys}}
        \cup RawExamples

\* date texts: first field, separator, middle field, separator, last field
DateEnds == {<<"1","2">>, <<"1">>, <<"3","1">>, <<"4","5">>, <<"1","2","3">>, <<"2","0","2","4">>, <<"0","0","0","0">>}
DateMids == {<<"0","3">>, <<"3">>, <<"0","2">>, <<"1","3">>, <<"m","a","r","z","o">>, <<"M","a","r","z","o">>, <<"f","e","b","b","r","a","i","o">>}
DateSeps == {<<"/">>, <<"-">>, <<".">>, <<" ">>, <<" "," ">>}
DateExamples == {
    <<>>, <<" "," "," ">>, <<"t","e","s","t","o"," ","l","i","b","e","r","o">>, <<"1","2","/","0","3","/","2","0","2","4">>, <<"1","2"," ","m","a","r","z","o"," ","2","0","2","4">>, <<"1","2"," ","M","A","R","Z","O"," ","2","0","2","4">>,
    <<" ","1","2","/","0","3","/","2","0","2","4"," ">>, <<"1","2","/","0","3","-","2","0","2","4">>, <<"i","l"," ","1","2","/","0","3","/","2","0","2","4">>, <<"s","c","a","d","e"," ","i","l"," ","5"," ","m","a","r","z","o"," ","2","0","2","4"," ","a","l","l","e"," ","1","2">>,
    <<"2","9","/","0","2","/","2","0","2","4">>, <<"2","9","/","0","2","/","2","0","2","3">>, <<"2","0","2","4","/","3","/"," ","5">>,
    <<"d","a","l"," ","5"," ","m","a","r","z","o"," ","2","0","2","4"," ","a","l"," ","1","2"," ","g","e","n","n","a","i","o"," ","2","0","2","5">>, <<"d","a","l"," ","1","2"," ","g","e","n","n","a","i","o"," ","2","0","2","5"," ","a","l"," ","5"," ","m","a","r","z","o"," ","2","0","2","4">> }
DateTexts ==
    {None, Float(5, 2)}
        \cup {Str(a \o s \o b \o s \o c) : a \in DateEnds, s \in DateSeps, b \in DateMids, c \in DateEnds}
        \cup {Str(s) : s \in DateExamples}

CleanChars == {" ", "\n", "a", "b"}
CleanExamples == {<<" "," ","B","a","n","d","o"," "," "," ","p","e","r"," ","l","e"," "," ","P","M","I"," "," ">>}
CleanTexts ==
    {None, Float(5, 2)} \cup {Str(s) : s \in SeqsUpTo(CleanChars, MaxCleanLen) \cup CleanExamples}

MaxAdapterPieces == 2
AdapterTexts ==
    {None, Float(5, 2)} \cup {Str(Concat(ps)) : ps \in SeqsUpTo(FindPieces, MaxAdapterPieces)}
CatalogExamples == {
    <<"O","c","c","o","r","r","e"," ","p","r","e","s","e","n","t","a","r","e"," ","l","a"," ","v","i","s","u","r","a"," ","c","a","m","e","r","a","l","e",","," ","i","l"," ","D","U","R","C",","," ","i","l"," ","C","F",","," ","i","l"," ","7","3","0"," ","e"," ","i","l"," ","b","i","l","a","n","c","i","o">> }
CatalogTexts == {Str(s) : s \in FindExamples \cup CatalogExamples}
Catalogs == {Adapters[a].document_target_words : a \in 1..Len(Adapters)}

MaxTermLen == 3
TermChars == {"e", "o", "a", "n", "E", " "}
TermExamples == {<<"i","m","p","r","e","s","a"," ","s","o","c","i","a","l","e">>, <<"e","n","t","i"," ","d","e","l"," ","t","e","r","z","o"," ","s","e","t","t","o","r","e">>, <<" "," ">>}
VariantTerms ==
    SeqsUpTo(TermChars, MaxTermLen) \cup TermExamples
        \cup Range(A_CHI_SI_RIVOLGE) \cup Range(SETTORE_MR) \cup Range(SPESE_AMMISSIBILI_MR)

Functions == {"extract_number", "match_to_controlled_vocab", "find_target_words",
              "process_grant_data", "parse_date", "clean_text", "validate_grant_data",
              "generate_variants", "find_target_words_of_all"}

\* raw maps over the columns validate_grant_data looks at
FieldChoices(key, values) == {EmptyDict} \cup {key :> v : v \in values}
LinkValues ==
    {None, Str(<<>>), Str(<<"h","t","t","p",":","/","/","a",".","i","t">>), Str(<<"h","t","t","p","s",":","/","/","a",".","i","t">>), Str(<<"f","t","p",":","/","/","a",".","i","t">>), Float(5, 2)}
ValidateMaps ==
    {a @@ b @@ c @@ d @@ e :
        a \in FieldChoices("Nome del bando", {Str(<<" "," ">>), Str(<<"B","a","n","d","o">>)}),
        b \in FieldChoices("Descrizione breve (Plain text)", {Str(<<"x">>)}),
        c \in FieldChoices("Descrizione del bando", {None, Str(<<"x">>)}),
        d \in FieldChoices("Link Bando", LinkValues),
        e \in FieldChoices("Link al sito del bando", LinkValues)}

----------------------------------------------------------------------------
(* Spec: one call of one function, on arguments drawn from the sets above *)

NoWorkers ==
    /\ heap = <<>> /\ wpc = <<>> /\ wraw = <<>> /\ wref = <<>> /\ wret = <<>>

NoCrawl ==
    /\ grants = <<>> /\ grant_index = 0 /\ processed_grants = <<>>
    /\ validation_errors = EmptyDict

NoBaseCrawl ==
    /\ grant_urls = <<>> /\ max_pages = 0 /\ url_index = 0 /\ parsed = <<>>

NoRun ==
    /\ sites_to_crawl = <<>> /\ parallel = FALSE /\ max_workers = 0
    /\ crawl_results = <<>> /\ futures = <<>> /\ site_index = 0 /\ all_grants = <<>>

Init ==
    /\ pc = "ready"
    /\ ret = None
    /\ NoWorkers
    /\ NoCrawl
    /\ NoBaseCrawl
    /\ NoRun
    /\ \/ /\ fn = "extract_number"
          /\ text \in NumberTexts
          /\ words = <<>> /\ raw_data = EmptyDict
       \/ /\ fn = "match_to_controlled_vocab"
          /\ text \in VocabTexts
          /\ words \in VocabLists
          /\ raw_data = EmptyDict
       \/ /\ fn = "find_target_words"
          /\ text \in FindTexts
          /\ words \in TargetLists
          /\ raw_data = EmptyDict
       \/ /\ fn = "process_grant_data"
          /\ raw_data \in RawMaps
          /\ text = None /\ words = <<>>
       \/ /\ fn = "parse_date"
          /\ text \in DateTexts
          /\ words = <<>> /\ raw_data = EmptyDict
       \/ /\ fn = "clean_text"
          /\ text \in CleanTexts
          /\ words = <<>> /\ raw_data = EmptyDict
       \/ /\ fn = "validate_grant_data"
          /\ raw_data \in ValidateMaps
          /\ text = None /\ words = <<>>
       \/ /\ fn = "find_target_words_of_all"
          /\ \/ text \in AdapterTexts /\ words \in TargetLists
             \/ text \in CatalogTexts /\ words \in Catalogs
          /\ raw_data = EmptyDict
       \/ /\ fn = "generate_variants"
          /\ text \in {Str(term) : term \in VariantTerms}
          /\ words = <<>> /\ raw_data = EmptyDict
    \* validate_grant_data is called on the record process_grant_data returned
    /\ data = IF fn = "validate_grant_data" THEN process_grant_data(raw_data).s ELSE EmptyDict

Return(v) ==
    /\ pc' = "done"
    /\ ret' = v
    /\ UNCHANGED <<fn, text, words, raw_data, heap, wpc, wraw, wref, wret, BaseVars, RunVars,
                   data, grants, grant_index, processed_grants, validation_errors>>

CallExtractNumber ==
    /\ pc = "ready" /\ fn = "extract_number"
    /\ Return(extract_number(text))

CallMatchToControlledVocab ==
    /\ pc = "ready" /\ fn = "match_to_controlled_vocab"
    /\ Return(match_to_controlled_vocab(text, words))

CallFindTargetWords ==
    /\ pc = "ready" /\ fn = "find_target_words"
    /\ Return(find_target_words(text, words))

CallProcessGrantData ==
    /\ pc = "ready" /\ fn = "process_grant_data"
    /\ Return(process_grant_data(raw_data))

CallParseDate ==
    /\ pc = "ready" /\ fn = "parse_date"
    /\ Return(parse_date(text))

CallCleanText ==
    /\ pc = "ready" /\ fn = "clean_text"
    /\ Return(clean_text(text))

CallValidateGrantData ==
    /\ pc = "ready" /\ fn = "validate_grant_data"
    /\ pc' = "done"
    /\ ret' = validate_grant_data(data)
    /\ data' = validated(data).data
    /\ UNCHANGED <<fn, text, words, raw_data, heap, wpc, wraw, wref, wret, BaseVars, RunVars,
                   grants, grant_index, processed_grants, validation_errors>>

CallGenerateVariants ==
    /\ pc = "ready" /\ fn = "generate_variants"
    /\ Return(List(generate_variants(text.s)))

CallFindTargetWordsOfAll ==
    /\ pc = "ready" /\ fn = "find_target_words_of_all"
    /\ Return([t |-> "tuples", s |-> find_target_words_of_all(text, words), n |-> 0, d |-> 1])

Next ==
    \/ CallValidateGrantData
    \/ CallFindTargetWordsOfAll
    \/ CallGenerateVariants
    \/ CallParseDate
    \/ CallCleanText
    \/ CallExtractNumber
    \/ CallMatchToControlledVocab
    \/ CallFindTargetWords
    \/ CallProcessGrantData

Spec == Init /\ [][Next]_vars

----------------------------------------------------------------------------
(* SpecWorkers: process_grant_data called from the threads of run_crawler's   *)
(* pool (one crawl_site per thread), each call advancing one loop of its    *)
(* body at a time.  Objects live in heap, by identity: the module-level     *)
(* lists, every call's raw_data argument and the dict every call builds.    *)

Workers == 1..NumWorkers

GlobalsId == 0
RawId(w) == w
RecordId(w) == NumWorkers + w

processed_ref_shared(w) == NumWorkers + 1

\* processed_data = {...}: the name is bound to a dict no other call holds
processed_ref(w) == RecordId(w)

WorkerRaws == {
    ("A chi si rivolge" :> Str(<<"p","m","i">>)) @@ ("Dotazione" :> Str(<<"1",",","5">>)),
    ("Nome del bando" :> None) @@ ("extra" :> Str(<<"x">>)) @@ ("Codice ateco" :> Str(<<"A">>)),
    ("Data creazione" :> Str(<<"1","2","/","0","3","/","2","0","2","4">>)) @@ ("Dotazione" :> Float(5, 2)) }

InitWorkers ==
    /\ fn = "" /\ pc = "done" /\ text = None /\ words = <<>> /\ raw_data = EmptyDict
    /\ ret = None
    /\ NoCrawl /\ NoBaseCrawl /\ NoRun /\ data = EmptyDict
    /\ wraw \in [Workers -> WorkerRaws]
    /\ heap = [id \in 0..(2 * NumWorkers) |->
                 IF id = GlobalsId THEN ModuleGlobals
                 ELSE IF id <= NumWorkers THEN wraw[id]
                 ELSE EmptyDict]
    /\ wpc = [w \in Workers |-> "call"]
    /\ wref = [w \in Workers |-> GlobalsId]
    /\ wret = [w \in Workers |-> None]

SpecVars == <<fn, pc, text, words, raw_data, ret, BaseVars, RunVars,
              data, grants, grant_index, processed_grants, validation_errors>>

\* worker w's loop `stage` ran to out: go on to `next`, or leave with the exception
Advance(w, out, next) ==
    /\ heap' = [heap EXCEPT ![wref[w]] = out.data]
    /\ IF out.status = "ok"
       THEN wpc' = [wpc EXCEPT ![w] = next] /\ wret' = wret
       ELSE wpc' = [wpc EXCEPT ![w] = "done"] /\ wret' = [wret EXCEPT ![w] = Raise(out.status)]
    /\ UNCHANGED <<SpecVars, wraw, wref>>

NewRecord(w) ==
    /\ wpc[w] = "call"
    /\ wref' = [wref EXCEPT ![w] = processed_ref(w)]
    /\ heap' = [heap EXCEPT ![processed_ref(w)] = new_record(heap[GlobalsId])]
    /\ wpc' = [wpc EXCEPT ![w] = "copy"]
    /\ UNCHANGED <<SpecVars, wraw, wret>>

CopyRaw(w) ==
    /\ wpc[w] = "copy"
    /\ Advance(w, Ok(copy_raw(heap[RawId(w)], heap[wref[w]])), "text")

TextFields(w) ==
    /\ wpc[w] = "text"
    /\ Advance(w, text_fields(heap[RawId(w)], Ok(heap[wref[w]])), "numeric")

NumericFields(w) ==
    /\ wpc[w] = "numeric"
    /\ Advance(w, numeric_fields(heap[RawId(w)], Ok(heap[wref[w]])), "date")

DateFields(w) ==
    /\ wpc[w] = "date"
    /\ Advance(w, date_fields(heap[RawId(w)], Ok(heap[wref[w]])), "vocab")

VocabFields(w) ==
    /\ wpc[w] = "vocab"
    /\ Advance(w, vocab_fields(heap[RawId(w)], Ok(heap[wref[w]]), heap[GlobalsId]), "sezione")

SezioneField(w) ==
    /\ wpc[w] = "sezione"
    /\ Advance(w, sezione_field(heap[RawId(w)], Ok(heap[wref[w]]), heap[GlobalsId]), "return")

ReturnRecord(w) ==
    /\ wpc[w] = "return"
    /\ wret' = [wret EXCEPT ![w] = Dict(heap[wref[w]])]
    /\ wpc' = [wpc EXCEPT ![w] = "done"]
    /\ UNCHANGED <<SpecVars, heap, wraw, wref>>

NextWorkers ==
    \E w \in Workers :
        \/ NewRecord(w)
        \/ CopyRaw(w)
        \/ TextFields(w)
        \/ NumericFields(w)
        \/ DateFields(w)
        \/ VocabFields(w)
        \/ SezioneField(w)
        \/ ReturnRecord(w)

SpecWorkers == InitWorkers /\ [][NextWorkers]_vars


----------------------------------------------------------------------------
(* SpecCrawl: crawl_site, from the call of crawler.crawl() to its return,   *)
(* one statement of the processing loop at a time                           *)

MaxGrants == 3          \* grants crawler.crawl() returns

CrawlGrants == {
    EmptyDict,
    ("Nome del bando" :> Str(<<"B","a","n","d","o"," ","A">>)) @@ ("Descrizione breve (Plain text)" :> Str(<<"x">>))
        @@ ("Descrizione del bando" :> Str(<<"x">>)) @@ ("Link Bando" :> Str(<<"h","t","t","p",":","/","/","a",".","i","t">>))
        @@ ("Link al sito del bando" :> Str(<<"h","t","t","p",":","/","/","a",".","i","t">>)),
    ("Nome del bando" :> Str(<<"B","a","n","d","o"," ","A">>)) @@ ("Descrizione breve (Plain text)" :> Str(<<"x">>))
        @@ ("Descrizione del bando" :> Str(<<"x">>)) @@ ("Link Bando" :> Str(<<"f","t","p",":","/","/","a",".","i","t">>)),
    ("Nome del bando" :> Str(<<"B","a","n","d","o"," ","B">>)) @@ ("Descrizione breve (Plain text)" :> None)
        @@ ("Link Bando" :> Str(<<"h","t","t","p","s",":","/","/","a",".","i","t">>)),
    ("Nome del bando" :> Str(<<"B","a","n","d","o"," ","C">>)) @@ ("Descrizione breve (Plain text)" :> Str(<<"x">>))
        @@ ("Descrizione del bando" :> Str(<<"x">>)) @@ ("Link Bando" :> Str(<<"h","t","t","p",":","/","/","a",".","i","t">>))
        @@ ("Dotazione" :> Float(5, 2)),
    ("Nome del bando" :> Str(<<"B","a","n","d","o"," ","D">>)) @@ ("Link Bando" :> Float(5, 2)) }
GrantLists == SeqsUpTo(CrawlGrants, MaxGrants)

InitCrawl ==
    /\ fn = "crawl_site" /\ pc = "start"
    /\ text = None /\ words = <<>> /\ raw_data = EmptyDict /\ ret = None
    /\ data = EmptyDict
    /\ NoWorkers
    /\ NoCrawl
    /\ NoBaseCrawl
    /\ NoRun

CrawlFrame == <<fn, text, words, raw_data, heap, wpc, wraw, wref, wret, BaseVars, RunVars>>

\* return [] before or in place of the loop
ReturnNothing(at) ==
    /\ pc' = at
    /\ ret' = List(<<>>)
    /\ UNCHANGED <<CrawlFrame, data, grants, grant_index, processed_grants, validation_errors>>

\* if not crawler_class: return [] / if not site_config: return []
NoCrawlerOrConfig ==
    /\ pc = "start"
    /\ ReturnNothing("returned")

\* grants = crawler.crawl()
Crawl ==
    /\ pc = "start"
    /\ \E gs \in GrantLists : grants' = gs
    /\ pc' = "loop"
    /\ UNCHANGED <<CrawlFrame, data, ret, grant_index, processed_grants, validation_errors>>

\* crawler_class(...) or crawler.crawl() raises: except Exception: return []
CrawlRaises ==
    /\ pc = "start"
    /\ ReturnNothing("crawl_failed")

\* processed_grant = process_grant_data(grant) returned the record
processed(record) ==
    /\ ~IsRaise(record)
    /\ data' = record.s
    /\ pc' = "validate"
    /\ UNCHANGED <<CrawlFrame, ret, grants, grant_index, processed_grants, validation_errors>>

\* processed_grant = process_grant_data(grant), for the grant the loop is at
ProcessGrant ==
    /\ pc = "loop" /\ grant_index < Len(grants)
    /\ processed(process_grant_data(grants[grant_index + 1]))

\* process_grant_data raises: except Exception: return []
ProcessRaises ==
    /\ pc = "loop" /\ grant_index < Len(grants)
    /\ IsRaise(process_grant_data(grants[grant_index + 1]))
    /\ ReturnNothing("failed")

appended_if_valid(list, record, errs) == IF errs = <<>> THEN Append(list, record) ELSE list

\* processed_grants.append(processed_grant)
appended(list, record, errs) == Append(list, record)

\* grant_id = processed_grant.get("Nome del bando", f"Grant_{i}")
grant_id(record) == get(record, "Nome del bando")

\* the rest of the iteration, after errors = validate_grant_data(processed_grant)
validated_grant(errs) ==
    /\ errs.t = "list"
    /\ validation_errors' =
          IF errs.s # <<>> THEN Assign(validation_errors, grant_id(data), errs.s)
          ELSE validation_errors
    /\ processed_grants' = appended(processed_grants, data, errs.s)
    /\ grant_index' = grant_index + 1
    /\ pc' = "loop"
    /\ UNCHANGED <<CrawlFrame, data, ret, grants>>

\* errors = validate_grant_data(processed_grant); if errors: ...; processed_grants.append(...)
ValidateGrant ==
    /\ pc = "validate"
    /\ validated_grant(validate_grant_data(data))

\* validate_grant_data raises: except Exception: return []
ValidateRaises ==
    /\ pc = "validate"
    /\ IsRaise(validate_grant_data(data))
    /\ ReturnNothing("failed")

\* return processed_grants
ReturnProcessed ==
    /\ pc = "loop" /\ grant_index = Len(grants)
    /\ pc' = "returned"
    /\ ret' = List(processed_grants)
    /\ UNCHANGED <<CrawlFrame, data, grants, grant_index, processed_grants, validation_errors>>

NextCrawl ==
    \/ NoCrawlerOrConfig
    \/ Crawl
    \/ CrawlRaises
    \/ ProcessGrant
    \/ ProcessRaises
    \/ ValidateGrant
    \/ ValidateRaises
    \/ ReturnProcessed

SpecCrawl == InitCrawl /\ [][NextCrawl]_vars

----------------------------------------------------------------------------
(* SpecBaseCrawl: BaseCrawler.crawl, one statement at a time.  The listing   *)
(* and the outcome of every parse_grant_details call are the site's.        *)

MaxUrls == 4
MaxMaxPages == 4

Urls == {<<"h","t","t","p",":","/","/","a",".","i","t","/","1">>, <<"h","t","t","p",":","/","/","a",".","i","t","/","2">>}
Listings == SeqsUpTo(Urls, MaxUrls)

\* what parse_grant_details(url) can give: an exception, None, {} or a raw map
Raised == Raise("Exception")
GrantData(url) ==
    {None, Dict(EmptyDict),
     Dict(("Nome del bando" :> Str(<<"B","a","n","d","o">>)) @@ ("Link Bando" :> Str(url)))}

InitBaseCrawl ==
    /\ fn = "crawl" /\ pc = "start"
    /\ text = None /\ words = <<>> /\ raw_data = EmptyDict /\ ret = None
    /\ data = EmptyDict
    /\ NoWorkers
    /\ NoCrawl
    /\ NoRun
    \* max_pages is a number of pages: --max-pages, 10 by default
    /\ max_pages \in 0..MaxMaxPages
    /\ grant_urls = <<>> /\ url_index = 0 /\ parsed = <<>>

BaseFrame == <<fn, text, words, raw_data, heap, wpc, wraw, wref, wret, data,
               grant_index, processed_grants, validation_errors, RunVars>>

\* grant_urls = self.get_grant_listing_urls(); grants = []
GetGrantListingUrls ==
    /\ pc = "start"
    /\ \E urls \in Listings : grant_urls' = urls
    /\ grants' = <<>>
    /\ pc' = "loop"
    /\ UNCHANGED <<BaseFrame, ret, max_pages, url_index, parsed>>

\* get_grant_listing_urls() raises: nothing in crawl catches it
ListingRaises ==
    /\ pc = "start"
    /\ pc' = "raised"
    /\ ret' = Raised
    /\ UNCHANGED <<BaseFrame, grants, BaseVars>>

first_pages_all(urls, n) == urls

\* grant_urls[:self.max_pages]; a negative bound counts from the end of the list
first_pages(urls, n) ==
    IF n >= 0 THEN SubSeq(urls, 1, Min(n, Len(urls)))
    ELSE SubSeq(urls, 1, Max(0, Len(urls) + n))

\* if grant_data: the truth value of None and of a dict
nonempty(grant_data) == grant_data.t = "dict" /\ DOMAIN grant_data.s # {}

\* one iteration of `for url in grant_urls[:self.max_pages]` is over
next_url(url, outcome) ==
    /\ url_index' = url_index + 1
    /\ parsed' = Append(parsed, [url |-> url, outcome |-> outcome])
    /\ UNCHANGED <<BaseFrame, ret, pc, grant_urls, max_pages>>

InLoop == pc = "loop" /\ url_index < Len(first_pages(grant_urls, max_pages))

\* grant_data = self.parse_grant_details(url); if grant_data: grants.append(grant_data)
ParseAppends ==
    /\ InLoop
    /\ LET url == first_pages(grant_urls, max_pages)[url_index + 1]
       IN  \E grant_data \in GrantData(url) :
              /\ nonempty(grant_data)
              /\ grants' = Append(grants, grant_data.s)
              /\ next_url(url, grant_data)

\* parse_grant_details returned None or {}: nothing is appended
ParseEmpty ==
    /\ InLoop
    /\ LET url == first_pages(grant_urls, max_pages)[url_index + 1]
       IN  \E grant_data \in GrantData(url) :
              /\ ~nonempty(grant_data)
              /\ grants' = grants
              /\ next_url(url, grant_data)

\* parse_grant_details raised: except Exception: log and continue
ParseRaises ==
    /\ InLoop
    /\ grants' = grants
    /\ next_url(first_pages(grant_urls, max_pages)[url_index + 1], Raised)

\* return grants
ReturnGrants ==
    /\ pc = "loop" /\ url_index = Len(first_pages(grant_urls, max_pages))
    /\ pc' = "returned"
    /\ ret' = List(grants)
    /\ UNCHANGED <<BaseFrame, grants, BaseVars>>

NextBaseCrawl ==
    \/ GetGrantListingUrls
    \/ ListingRaises
    \/ ParseAppends
    \/ ParseEmpty
    \/ ParseRaises
    \/ ReturnGrants

SpecBaseCrawl == InitBaseCrawl /\ [][NextBaseCrawl]_vars

\* every statement of crawl is executed once control reaches it, and a call
\* of parse_grant_details returns or raises (its requests carry a timeout)
FairBaseCrawl == SpecBaseCrawl /\ WF_vars(NextBaseCrawl)

----------------------------------------------------------------------------
(* SpecRun: run_crawler from `all_grants = []` on.  In parallel mode every   *)
(* site is a task of the pool and the main thread takes the finished tasks  *)
(* as they complete; in sequential mode the main thread calls crawl_site    *)
(* itself.  What crawl_site gives for a site is the site's.                 *)

MaxSites == 3
MaxPoolWorkers == 3
MaxSiteGrants == 2

\* the grants of a site: records no other site returns
site_grants(site, n) == [k \in 1..n |-> [site |-> site, grant |-> k]]

\* crawl_site returns a list of records, or an exception leaves it (from
\* get_crawler_class, which catches ImportError only)
SiteResults(site) ==
    {Raise("Exception")} \cup {List(site_grants(site, n)) : n \in 0..MaxSiteGrants}

InitRun ==
    /\ fn = "run_crawler"
    /\ text = None /\ words = <<>> /\ raw_data = EmptyDict /\ ret = None
    /\ data = EmptyDict
    /\ NoWorkers
    /\ NoCrawl
    /\ NoBaseCrawl
    /\ \E n \in 0..MaxSites :
          /\ sites_to_crawl = [s \in 1..n |-> s]
          /\ crawl_results \in [1..n -> UNION {SiteResults(s) : s \in 1..n}]
          /\ \A s \in 1..n : crawl_results[s] \in SiteResults(s)
    /\ parallel \in BOOLEAN
    /\ max_workers \in 2..MaxPoolWorkers
    /\ pc = IF parallel THEN "submit" ELSE "loop"
    /\ futures = <<>> /\ site_index = 0 /\ all_grants = <<>>

RunFrame == <<fn, text, words, raw_data, heap, wpc, wraw, wref, wret, data,
              grants, grant_index, processed_grants, validation_errors, BaseVars,
              sites_to_crawl, parallel, max_workers, crawl_results>>

\* future_to_site = {executor.submit(crawl_site, ...): site for site in sites_to_crawl}
SubmitAll ==
    /\ pc = "submit"
    /\ futures' = [s \in 1..Len(sites_to_crawl) |-> "pending"]
    /\ pc' = "as_completed"
    /\ UNCHANGED <<RunFrame, ret, site_index, all_grants>>

\* a free thread of the pool takes the oldest task of the queue
StartTask ==
    /\ pc = "as_completed"
    /\ Cardinality({s \in DOMAIN futures : futures[s] = "running"}) < max_workers
    /\ \E s \in DOMAIN futures :
          /\ futures[s] = "pending"
          /\ \A r \in DOMAIN futures : futures[r] = "pending" => s <= r
          /\ futures' = [futures EXCEPT ![s] = "running"]
    /\ UNCHANGED <<RunFrame, ret, pc, site_index, all_grants>>

\* crawl_site returned or raised in its thread: the future is done
FinishTask ==
    /\ pc = "as_completed"
    /\ \E s \in DOMAIN futures :
          /\ futures[s] = "running"
          /\ futures' = [futures EXCEPT ![s] = "finished"]
    /\ UNCHANGED <<RunFrame, ret, pc, site_index, all_grants>>

extended_twice(list, more) == list \o more \o more

\* all_grants.extend(grants)
extended(list, more) == list \o more

\* as_completed yields a finished future: grants = future.result(); all_grants.extend(grants)
CollectResult ==
    /\ pc = "as_completed"
    /\ \E s \in DOMAIN futures :
          /\ futures[s] = "finished"
          /\ crawl_results[s].t = "list"
          /\ all_grants' = extended(all_grants, crawl_results[s].s)
          /\ futures' = [futures EXCEPT ![s] = "yielded"]
    /\ UNCHANGED <<RunFrame, ret, pc, site_index>>

\* future.result() raises what the task raised: except Exception: log
CollectException ==
    /\ pc = "as_completed"
    /\ \E s \in DOMAIN futures :
          /\ futures[s] = "finished"
          /\ crawl_results[s].t # "list"
          /\ futures' = [futures EXCEPT ![s] = "yielded"]
    /\ UNCHANGED <<RunFrame, ret, pc, site_index, all_grants>>

\* every future was yielded: the pool is shut down and all_grants is exported
ParallelDone ==
    /\ pc = "as_completed"
    /\ \A s \in DOMAIN futures : futures[s] = "yielded"
    /\ pc' = "export"
    /\ ret' = List(all_grants)
    /\ UNCHANGED <<RunFrame, futures, site_index, all_grants>>

\* grants = crawl_site(site_type, site_name, args.max_pages); all_grants.extend(grants)
SequentialCrawl ==
    /\ pc = "loop" /\ site_index < Len(sites_to_crawl)
    /\ crawl_results[site_index + 1].t = "list"
    /\ all_grants' = extended(all_grants, crawl_results[site_index + 1].s)
    /\ site_index' = site_index + 1
    /\ UNCHANGED <<RunFrame, ret, pc, futures>>

\* crawl_site raises in the sequential loop: nothing catches it, run_crawler is left
SequentialRaises ==
    /\ pc = "loop" /\ site_index < Len(sites_to_crawl)
    /\ crawl_results[site_index + 1].t # "list"
    /\ pc' = "raised"
    /\ ret' = crawl_results[site_index + 1]
    /\ UNCHANGED <<RunFrame, futures, site_index, all_grants>>

\* the sequential loop is over: all_grants is exported
SequentialDone ==
    /\ pc = "loop" /\ site_index = Len(sites_to_crawl)
    /\ pc' = "export"
    /\ ret' = List(all_grants)
    /\ UNCHANGED <<RunFrame, futures, site_index, all_grants>>

NextRun ==
    \/ SubmitAll
    \/ StartTask
    \/ FinishTask
    \/ CollectResult
    \/ CollectException
    \/ ParallelDone
    \/ SequentialCrawl
    \/ SequentialRaises
    \/ SequentialDone

SpecRun == InitRun /\ [][NextRun]_vars
----------------------------------------------------------------------------
(* Properties *)

Called(f) == fn = f /\ pc = "done"

\* float() of a match of the number pattern, normalised as extract_number does
Normalised(run) == float(replace(replace(run, ".", <<>>), ",", <<".">>))

StringsOrNone(raw) == \A k \in DOMAIN raw : raw[k].t \in {"str", "None"}

\* C1: whatever the raw field map (empty, partial, with None values, with keys
\* that are no expected column), the key set of the record process_grant_data
\* returns is exactly EXPECTED_COLUMNS.
C1_KeysAreExpectedColumns ==
    (Called("process_grant_data") /\ ret.t = "dict")
        => DOMAIN ret.s = Range(EXPECTED_COLUMNS)

C1_Witness ==
    /\ Called("process_grant_data") /\ ret.t = "dict"
    /\ "extra" \in DOMAIN raw_data
    /\ \E k \in DOMAIN raw_data : raw_data[k].t = "None"

\* C2: for a raw map of strings and None, every value of the returned record
\* is present, never None: "" for a missing or None input, a float or "" in a
\* numeric column, a string in every other column.
C2_AllValuesPresent ==
    (Called("process_grant_data") /\ StringsOrNone(raw_data))
        => /\ ret.t = "dict"
           /\ \A k \in DOMAIN ret.s :
                 IF k \in Range(NUMERIC_FIELDS)
                 THEN ret.s[k].t = "float" \/ ret.s[k] = Str(<<>>)
                 ELSE ret.s[k].t = "str"

\* C3: for a raw map of strings and None, process_grant_data returns a record:
\* no exception escapes; a numeric text that does not parse leaves the column
\* without a number and a date text that does not parse leaves the cleaned
\* text, instead of raising.
C3_NoExceptionEscapes ==
    (Called("process_grant_data") /\ StringsOrNone(raw_data))
        => /\ ret.t = "dict"
           /\ \A k \in DOMAIN raw_data \cap Range(NUMERIC_FIELDS) :
                 (/\ findall_number(raw_data[k].s, 1) # <<>>
                  /\ IsRaise(Normalised(findall_number(raw_data[k].s, 1)[1])))
                    => ret.s[k] = None
           /\ \A k \in DOMAIN raw_data \cap Range(DATE_FIELDS) :
                 (/\ Truthy(raw_data[k])
                  /\ try_formats(clean_text(raw_data[k]).s, 1) = None
                  /\ try_months(clean_text(raw_data[k]).s, 1) = None)
                    => ret.s[k] = clean_text(raw_data[k])

C3_Witness ==
    /\ Called("process_grant_data") /\ StringsOrNone(raw_data)
    /\ "Dotazione" \in DOMAIN raw_data
    /\ raw_data["Dotazione"] = Str(<<"1",",","2",",","3"," ","s","e","z","i","o","n","e"," ","c"," ","A">>)
    /\ ret.t = "dict" /\ ret.s["Dotazione"] = None
    /\ "Data creazione" \in DOMAIN raw_data
    /\ ret.s["Data creazione"] = clean_text(raw_data["Data creazione"])
    /\ Truthy(raw_data["Data creazione"])

SameValue(a, b) == a.t = b.t /\ (a.t = "dict" => a.s = b.s)

\* C4: calls of process_grant_data that run concurrently, in any interleaving,
\* each return what the same call returns when run alone, and none of them
\* writes to the module-level lists or to its raw_data argument.
C4_CallsAreIndependent ==
    /\ heap[GlobalsId] = ModuleGlobals
    /\ \A w \in Workers :
          /\ heap[RawId(w)] = wraw[w]
          /\ wpc[w] = "done" => SameValue(wret[w], process_grant_data(wraw[w]))

C4_Witness ==
    \E v, w \in Workers :
        /\ wraw[v] # wraw[w]
        /\ wpc[v] = "done" /\ wret[v].t = "dict"
        /\ wpc[w] \in {"text", "numeric", "date", "vocab", "sezione", "return"}

----------------------------------------------------------------------------
(* find_target_words: the occurrences of a phrase and their windows, as the *)
(* properties below speak of them                                           *)

Found == ret.s.found_words
Contexts == ret.s.context_dict

IsCritical(target) == lower(target) \in Range(critical_documents)
WindowSize(target) == IF IsCritical(target) THEN CRITICAL_WINDOW ELSE DEFAULT_WINDOW

\* the start indices of the occurrences of target in the lower-cased text
Occurrences(target) ==
    IF (\E k \in 1..Len(target) : target[k] = " ") \/ Len(target) > 3
    THEN finditer(lower(text.s), lower(target), 1)
    ELSE <<>>

\* the context window of the occurrence of target at index i
Window(target, i) ==
    SubSeq(lower(text.s), Max(1, i - WindowSize(target)),
           Min(Len(text.s), i + Len(target) - 1 + WindowSize(target)))

HoldsOneOf(window, phrases) == \E p \in Range(phrases) : Contains(window, p)
HasNegation(target, i) == HoldsOneOf(Window(target, i), exclusion_contexts)
HasKeyword(target, i) == HoldsOneOf(Window(target, i), validation_keywords)

\* the number of snippets recorded under target
Recorded(target) == IF target \in DOMAIN Contexts THEN Len(Contexts[target]) ELSE 0

OccurrenceSet(target) == Range(Occurrences(target))

FindCalled == Called("find_target_words") /\ ret.t = "tuple" /\ Truthy(text)

\* C5: an occurrence whose context window holds a negation phrase is never
\* confirmed, whatever keywords the window holds as well; a phrase all of whose
\* occurrences are discarded this way is in neither found_words nor context_dict.
C5_NegationDiscards ==
    FindCalled =>
        \A target \in Range(words) :
            /\ Recorded(target)
                 <= Cardinality({i \in OccurrenceSet(target) : ~HasNegation(target, i)})
            /\ (\A i \in OccurrenceSet(target) : HasNegation(target, i))
                 => target \notin Range(Found) /\ target \notin DOMAIN Contexts

C5_Witness ==
    /\ FindCalled
    /\ \E target \in Range(words) :
          /\ OccurrenceSet(target) # {}
          /\ \A i \in OccurrenceSet(target) : HasNegation(target, i) /\ HasKeyword(target, i)
          /\ target \notin Range(Found)

RECURSIVE IsSubsequence(_, _)
IsSubsequence(a, b) ==
    IF a = <<>> THEN TRUE
    ELSE IF b = <<>> THEN FALSE
    ELSE IF Head(a) = Head(b) THEN IsSubsequence(Tail(a), Tail(b))
    ELSE IsSubsequence(a, Tail(b))

FirstIndex(hay, needle) ==
    CHOOSE i \in 1..Len(hay) :
        /\ i + Len(needle) - 1 <= Len(hay) /\ SubSeq(hay, i, i + Len(needle) - 1) = needle
        /\ \A j \in 1..(i - 1) : SubSeq(hay, j, j + Len(needle) - 1) # needle

\* C7: found_words is a subsequence of target_words, in catalog order wherever
\* the phrases stand in the text; an entry with no confirmed occurrence is in
\* neither found_words nor context_dict, whose keys are the found phrases.
C7_FoundInCatalogOrder ==
    FindCalled =>
        /\ IsSubsequence(Found, words)
        /\ DOMAIN Contexts = Range(Found)
        /\ \A target \in Range(words) :
              {i \in OccurrenceSet(target) : ~HasNegation(target, i) /\ HasKeyword(target, i)} = {}
                 => target \notin Range(Found) /\ target \notin DOMAIN Contexts

C7_Witness ==
    /\ FindCalled
    /\ Len(words) = 2 /\ Found = words /\ words[1] # words[2]
    /\ FirstIndex(lower(text.s), lower(words[2])) < FirstIndex(lower(text.s), lower(words[1]))

ContainsIgnoringCase(hay, needle) == Contains(lower(hay), lower(needle))

\* C8: match_to_controlled_vocab returns a vocabulary term exactly when the
\* term or one of its generated variants is a substring of the text, letter
\* case ignored for the term and for the variants alike.
C8_VariantsIgnoreCase ==
    (Called("match_to_controlled_vocab") /\ text.t = "str")
        => /\ ret.t = "list"
           /\ \A term \in Range(words) :
                 term \in Range(ret.s)
                    <=> \/ ContainsIgnoringCase(text.s, term)
                        \/ \E v \in Range(generate_variants(term)) : ContainsIgnoringCase(text.s, v)

\* C9: the list match_to_controlled_vocab returns is a subsequence of
\* vocab_list, whatever the order of the terms in the text, and is empty for
\* an empty or None text.
C9_MatchesInVocabularyOrder ==
    Called("match_to_controlled_vocab") =>
        /\ ret.t = "list"
        /\ IsSubsequence(ret.s, words)
        /\ ~Truthy(text) => ret.s = <<>>

C9_Witness ==
    /\ Called("match_to_controlled_vocab") /\ text.t = "str"
    /\ Len(words) = 2 /\ ret.s = words /\ words[1] # words[2]
    /\ Contains(lower(text.s), lower(words[1])) /\ Contains(lower(text.s), lower(words[2]))
    /\ FirstIndex(lower(text.s), lower(words[2])) < FirstIndex(lower(text.s), lower(words[1]))

\* C10: extract_number uses the first match of the number pattern only: None
\* when nothing matches or when that match does not parse after normalisation,
\* whatever matches follow it, and its value otherwise.
C10_FirstMatchOnly ==
    (Called("extract_number") /\ text.t = "str")
        => ret = IF findall_number(text.s, 1) = <<>> THEN None
                 ELSE IF IsRaise(Normalised(findall_number(text.s, 1)[1])) THEN None
                 ELSE Normalised(findall_number(text.s, 1)[1])

C10_Witness ==
    /\ Called("extract_number") /\ text.t = "str"
    /\ Len(findall_number(text.s, 1)) >= 2
    /\ IsRaise(Normalised(findall_number(text.s, 1)[1]))
    /\ ~IsRaise(Normalised(findall_number(text.s, 1)[2]))
    /\ ret = None


----------------------------------------------------------------------------
(* extract_number, parse_date, clean_text: values *)

\* the number a match of the number pattern denotes when read the Italian way:
\* '.' groups thousands, ',' starts the decimals
ItalianValue(run) ==
    LET comma == CHOOSE i \in 1..Len(run) : run[i] = ","
    IN  IF \E i \in 1..Len(run) : run[i] = ","
        THEN Reduced(DigitsValue(SelectSeq(run, IsDigit)),
                     Pow10(Len(SelectSeq(SubSeq(run, comma + 1, Len(run)), IsDigit))))
        ELSE Float(DigitsValue(SelectSeq(run, IsDigit)), 1)

IsItalianNumber(run) ==
    /\ Cardinality({i \in 1..Len(run) : run[i] = ","}) <= 1
    /\ \E i \in 1..Len(run) : IsDigit(run[i])

Cleaned == clean_text(text).s

\* the fields of c around exactly two occurrences of the separator, else <<>>
FieldsOf(c, sep) ==
    LET at == {i \in 1..Len(c) : c[i] = sep}
        p == CHOOSE i \in at : \A j \in at : i <= j
        q == CHOOSE i \in at : \A j \in at : i >= j
    IN  IF Cardinality(at) # 2 THEN <<>>
        ELSE <<SubSeq(c, 1, p - 1), SubSeq(c, p + 1, q - 1), SubSeq(c, q + 1, Len(c))>>

IsNumeral(f, lens) == Len(f) \in lens /\ \A i \in 1..Len(f) : IsDigit(f[i])

\* <<year, month, day>> when the whole of c is a calendar date written in
\* pattern i (day and month of one or two digits, year of four), else <<>>
DateReading(c, i) ==
    LET f == FieldsOf(c, date_formats[i].sep)
        dayFirst == date_formats[i].order = "dmY"
        fd == IF dayFirst THEN f[1] ELSE f[3]
        fy == IF dayFirst THEN f[3] ELSE f[1]
    IN  IF f = <<>> THEN <<>>
        ELSE IF ~(IsNumeral(fd, {1, 2}) /\ IsNumeral(f[2], {1, 2}) /\ IsNumeral(fy, {4})) THEN <<>>
        ELSE IF /\ DigitsValue(fy) >= 1
                /\ DigitsValue(f[2]) \in 1..12
                /\ DigitsValue(fd) >= 1
                /\ DigitsValue(fd) <= DaysInMonth(DigitsValue(fy), DigitsValue(f[2]))
             THEN <<DigitsValue(fy), DigitsValue(f[2]), DigitsValue(fd)>>
             ELSE <<>>

Iso(ymd) == FourDigits(ymd[1]) \o <<"-">> \o TwoDigits(ymd[2]) \o <<"-">> \o TwoDigits(ymd[3])

DateCalled == Called("parse_date") /\ text.t = "str" /\ text.s # <<>>

\* C12: the six patterns DD/MM/YYYY, DD-MM-YYYY, DD.MM.YYYY, YYYY/MM/DD,
\* YYYY-MM-DD, YYYY.MM.DD are tried in this order on the cleaned text; the first
\* that parses the whole text gives the result, as YYYY-MM-DD; a date with
\* other text around it is not parsed by them.
C12_FirstPatternDecides ==
    /\ DateCalled =>
          \A i \in 1..Len(date_formats) :
              (/\ DateReading(Cleaned, i) # <<>>
               /\ \A j \in 1..(i - 1) : DateReading(Cleaned, j) = <<>>)
                 => ret = Str(Iso(DateReading(Cleaned, i)))
    /\ (DateCalled /\ text = Str(<<"1","2","/","0","3","/","2","0","2","4">>)) => ret = Str(<<"2","0","2","4","-","0","3","-","1","2">>)
    /\ (DateCalled /\ text = Str(<<" ","1","2","/","0","3","/","2","0","2","4"," ">>)) => ret = Str(<<"2","0","2","4","-","0","3","-","1","2">>)
    /\ (DateCalled /\ text = Str(<<"i","l"," ","1","2","/","0","3","/","2","0","2","4">>)) => ret = text
    /\ <<date_formats[1].order, date_formats[2].order, date_formats[3].order>> = <<"dmY", "dmY", "dmY">>
    /\ <<date_formats[4].order, date_formats[5].order, date_formats[6].order>> = <<"Ymd", "Ymd", "Ymd">>

C12_Witness ==
    /\ DateCalled
    /\ text = Str(<<"2","0","2","4","-","3","-","1","2">>)
    /\ ret = Str(<<"2","0","2","4","-","0","3","-","1","2">>)

\* C13: parse_date returns None for a None input only: every string, the empty
\* string and a whitespace-only string included, that matches no date pattern
\* comes back as its cleaned text.
C13_NullOnlyForNull ==
    (Called("parse_date") /\ text.t = "str")
        => /\ ret # None
           /\ (/\ try_formats(Cleaned, 1) = None
               /\ try_months(Cleaned, 1) = None) => ret = clean_text(text)

\* the day and year of the leftmost 'day month year' of the k-th month name in c
MonthReading(c, k) == month_search(lower(c), months_it[k].name)

PadTwo(day) == IF Len(day) = 1 THEN <<"0">> \o day ELSE day

\* C14: when none of the six patterns parses, a day number, an Italian month
\* name in any letter case and a 4-digit year give year-month-day with the
\* month's number and the day padded to two digits; '12 marzo 2024' gives
\* '2024-03-12'.
C14_ItalianMonthNames ==
    /\ (DateCalled /\ try_formats(Cleaned, 1) = None) =>
          \A k \in 1..Len(months_it) :
              (/\ MonthReading(Cleaned, k) # <<>>
               /\ \A j \in 1..(k - 1) : MonthReading(Cleaned, j) = <<>>)
                 => ret = Str(MonthReading(Cleaned, k)[2] \o <<"-">> \o TwoDigits(k)
                              \o <<"-">> \o PadTwo(MonthReading(Cleaned, k)[1]))
    /\ (DateCalled /\ text \in {Str(<<"1","2"," ","m","a","r","z","o"," ","2","0","2","4">>), Str(<<"1","2"," ","M","A","R","Z","O"," ","2","0","2","4">>), Str(<<"1","2"," "," ","M","a","r","z","o"," "," ","2","0","2","4">>)})
          => ret = Str(<<"2","0","2","4","-","0","3","-","1","2">>)
    /\ (DateCalled /\ text = Str(<<"s","c","a","d","e"," ","i","l"," ","5"," ","m","a","r","z","o"," ","2","0","2","4"," ","a","l","l","e"," ","1","2">>)) => ret = Str(<<"2","0","2","4","-","0","3","-","0","5">>)

C14_Witness ==
    /\ DateCalled
    /\ text = Str(<<"1"," "," ","M","a","r","z","o"," "," ","2","0","2","4">>)
    /\ ret = Str(<<"2","0","2","4","-","0","3","-","0","1">>)

----------------------------------------------------------------------------
(* process_grant_data: the Sezione column *)

\* the letter stands in codes as a code of its own: no word character beside it
Standalone(codes, letter) ==
    \E i \in 1..Len(codes) :
        /\ codes[i] = letter
        /\ (i = 1 \/ ~IsWordChar(codes[i - 1]))
        /\ (i = Len(codes) \/ ~IsWordChar(codes[i + 1]))

\* 'sezione <letter>' stands in codes, letter case ignored
NamedSection(codes, letter) ==
    Contains(lower(codes), lower(<<"s","e","z","i","o","n","e"," ">> \o <<letter>>))

SectionsOf(codes) ==
    SelectSeq(SEZIONE_ATECO, LAMBDA l : Standalone(codes, l) \/ NamedSection(codes, l))

\* C15: for a non-empty 'Codice ateco' text the Sezione column lists, in A..U
\* order, exactly the section letters that stand in it as a code of their own
\* or as 'sezione <letter>' in any letter case: a letter inside a longer word
\* is not listed and 'sezione a' is listed as A.
C15_SectionLetters ==
    (/\ Called("process_grant_data") /\ StringsOrNone(raw_data)
     /\ "Codice ateco" \in DOMAIN raw_data /\ Truthy(raw_data["Codice ateco"]))
        => /\ ret.t = "dict"
           /\ ret.s["Sezione"] =
                Str(join(CommaSpace, [i \in 1..Len(SectionsOf(raw_data["Codice ateco"].s)) |->
                                         <<SectionsOf(raw_data["Codice ateco"].s)[i]>>]))

----------------------------------------------------------------------------
(* validate_grant_data *)

ValidateCalled == Called("validate_grant_data") /\ StringsOrNone(raw_data)

\* the value of the record under a column, None when the column is not there
ValueOf(field) == IF field \in DOMAIN data THEN data[field] ELSE None

IsEmptyValue(v) == v = None \/ v = Str(<<>>)
BeginsWithHttp(v) ==
    /\ v.t = "str"
    /\ \/ (Len(v.s) >= 7 /\ SubSeq(v.s, 1, 7) = <<"h","t","t","p",":","/","/">>)
       \/ (Len(v.s) >= 8 /\ SubSeq(v.s, 1, 8) = <<"h","t","t","p","s",":","/","/">>)

RequiredColumns == <<"Nome del bando", "Descrizione breve (Plain text)",
                     "Descrizione del bando", "Link Bando">>
LinkColumns == <<"Link al sito del bando", "Link Bando">>

\* one message per column of cols the predicate holds of, in the order of cols
Messages(prefix, cols, Bad(_)) ==
    LET bad == SelectSeq(cols, Bad) IN [k \in 1..Len(bad) |-> prefix \o bad[k]]

MissingMessages ==
    Messages("Campo richiesto mancante: ", RequiredColumns, LAMBDA f : IsEmptyValue(ValueOf(f)))

\* C16 as stated: one 'missing required field' error per required column
\* that is missing or empty and one URL-format error per link column whose
\* value does not begin with http:// or https://; the empty list exactly when
\* the four required columns are non-empty and both links begin with http(s)://.
C16_ErrorsAsStated ==
    ValidateCalled =>
        /\ ret = List(MissingMessages
                      \o Messages("Formato URL non valido per: ", LinkColumns,
                                  LAMBDA f : ~BeginsWithHttp(ValueOf(f))))
        /\ ret = List(<<>>) <=> /\ \A k \in 1..4 : ~IsEmptyValue(ValueOf(RequiredColumns[k]))
                                /\ \A k \in 1..2 : BeginsWithHttp(ValueOf(LinkColumns[k]))

\* C16, amended: the URL-format error is appended only for a link column whose
\* value is non-empty and does not begin with http:// or https://; the empty
\* list exactly when the four required columns are non-empty, 'Link Bando'
\* begins with http(s):// and 'Link al sito del bando' is empty or begins with
\* http(s)://.
C16_ErrorsForNonEmptyLinks ==
    ValidateCalled =>
        /\ ret = List(MissingMessages
                      \o Messages("Formato URL non valido per: ", LinkColumns,
                                  LAMBDA f : ~IsEmptyValue(ValueOf(f)) /\ ~BeginsWithHttp(ValueOf(f))))
        /\ ret = List(<<>>) <=> /\ \A k \in 1..4 : ~IsEmptyValue(ValueOf(RequiredColumns[k]))
                                /\ BeginsWithHttp(ValueOf("Link Bando"))
                                /\ \/ IsEmptyValue(ValueOf("Link al sito del bando"))
                                   \/ BeginsWithHttp(ValueOf("Link al sito del bando"))

C16_Witness ==
    /\ ValidateCalled
    /\ ValueOf("Link al sito del bando") = Str(<<>>)
    /\ BeginsWithHttp(ValueOf("Link Bando"))
    /\ ret = List(<<>>)

\* C17: on a record process_grant_data produced from a raw map of strings and
\* None, validate_grant_data raises nothing: it returns a list, the failures
\* in it, and the record is as it was passed in.
C17_ValidateNeverRaises ==
    ValidateCalled =>
        /\ ret.t = "list"
        /\ data = process_grant_data(raw_data).s
        /\ (\E k \in 1..4 : IsEmptyValue(ValueOf(RequiredColumns[k]))) => ret.s # <<>>

C17_Witness ==
    /\ ValidateCalled
    /\ "Link Bando" \in DOMAIN raw_data /\ raw_data["Link Bando"] = None
    /\ "Link al sito del bando" \in DOMAIN raw_data
    /\ raw_data["Link al sito del bando"] = Str(<<"f","t","p",":","/","/","a",".","i","t">>)
    /\ ret.t = "list" /\ Len(ret.s) >= 2

----------------------------------------------------------------------------
(* crawl_site *)

\* the records of the first n crawled grants, in crawl order
RecordsOf(n) == [k \in 1..n |-> process_grant_data(grants[k]).s]

IsInvalid(raw) == validate_grant_data(process_grant_data(raw).s) # List(<<>>)

\* C18: a record that fails validation neither stops nor shortens the batch:
\* the loop goes through the crawled grants in order, the list it builds holds
\* the record of every grant gone through, valid or not, and the list
\* returned after the loop holds one record per crawled grant in crawl order;
\* for grants of strings and None the loop always gets to that return.
C18_InvalidRecordsKept ==
    /\ pc \in {"loop", "validate"} => /\ grant_index <= Len(grants)
                                    /\ processed_grants = RecordsOf(grant_index)
    /\ pc = "validate" => grant_index < Len(grants) /\ data = RecordsOf(grant_index + 1)[grant_index + 1]
    /\ pc = "returned" => ret = List(RecordsOf(Len(grants)))
    /\ (\A k \in 1..Len(grants) : StringsOrNone(grants[k])) => pc # "failed"

C18_Witness ==
    /\ pc = "returned"
    /\ Len(grants) = 3 /\ Len(ret.s) = 3
    /\ IsInvalid(grants[1]) /\ ~IsInvalid(grants[2]) /\ IsInvalid(grants[3])
    /\ validation_errors # EmptyDict

----------------------------------------------------------------------------
(* clean_text *)

NonSpaces(s) == SelectSeq(s, LAMBDA c : ~IsSpace(c))

\* the number of maximal runs of non-whitespace characters of s
WordCount(s) ==
    Cardinality({i \in 1..Len(s) : ~IsSpace(s[i]) /\ (i = 1 \/ IsSpace(s[i - 1]))})

\* C19: clean_text is idempotent; its result is '' for None and for the empty
\* string, and otherwise the words of the text with single spaces between
\* them: no whitespace at either end, none but ' ', no two spaces in a row.
C19_CleanTextIdempotent ==
    (Called("clean_text") /\ text.t \in {"str", "None"})
        => /\ ret.t = "str"
           /\ clean_text(ret) = ret
           /\ text \in {None, Str(<<>>)} => ret = Str(<<>>)
           /\ \A i \in 1..Len(ret.s) :
                 IsSpace(ret.s[i]) => /\ ret.s[i] = " "
                                      /\ 1 < i /\ i < Len(ret.s)
                                      /\ ~IsSpace(ret.s[i + 1])
           /\ text.t = "str" => /\ NonSpaces(ret.s) = NonSpaces(text.s)
                                /\ WordCount(ret.s) = WordCount(text.s)

C19_Witness ==
    /\ Called("clean_text")
    /\ text = Str(<<" "," ","B","a","n","d","o"," "," "," ","p","e","r"," ","l","e"," "," ","P","M","I"," "," ">>)
    /\ ret = Str(<<"B","a","n","d","o"," ","p","e","r"," ","l","e"," ","P","M","I">>)

----------------------------------------------------------------------------
(* find_target_words: the snippets *)

\* the confirmed occurrences of target, in text order
Confirmed(target) ==
    SelectSeq(Occurrences(target), LAMBDA i : ~HasNegation(target, i) /\ HasKeyword(target, i))

\* '...' + window before the match + '**' + match + '**' + window after + '...'
Snippet(target, i) ==
    <<".", ".", ".">>
        \o SubSeq(lower(text.s), Max(1, i - WindowSize(target)), i - 1)
        \o <<"*", "*">> \o SubSeq(lower(text.s), i, i + Len(target) - 1) \o <<"*", "*">>
        \o SubSeq(lower(text.s), i + Len(target),
                  Min(Len(text.s), i + Len(target) - 1 + WindowSize(target)))
        \o <<".", ".", ".">>

\* C20: context_dict holds, under every found phrase and under no other key,
\* the highlighted snippets of the confirmed occurrences of the phrase, one
\* each, in text order, and nothing for the other occurrences; no list is empty.
C20_SnippetsOfConfirmed ==
    FindCalled =>
        /\ DOMAIN Contexts = Range(Found)
        /\ \A target \in Range(Found) :
              /\ Contexts[target] # <<>>
              /\ Contexts[target] =
                    [k \in 1..Len(Confirmed(target)) |-> Snippet(target, Confirmed(target)[k])]

C20_Witness ==
    /\ FindCalled
    /\ \E target \in Range(Found) :
          /\ Len(Contexts[target]) = 2
          /\ Len(Occurrences(target)) = 3
          /\ Confirmed(target)[1] > Occurrences(target)[1]

----------------------------------------------------------------------------
(* find_target_words: the span of the context window, short phrases, word boundaries *)

Lowered == lower(text.s)

\* the first and last index of the span around the occurrence of target at i
SpanFirst(target, i) ==
    IF i - WindowSize(target) < 1 THEN 1 ELSE i - WindowSize(target)
SpanLast(target, i) ==
    IF i + Len(target) - 1 + WindowSize(target) > Len(Lowered) THEN Len(Lowered)
    ELSE i + Len(target) - 1 + WindowSize(target)

\* some phrase of the list has an occurrence lying wholly in lo..hi
LiesWithin(phrases, lo, hi) ==
    \E p \in Range(phrases) : \E j \in lo..(hi - Len(p) + 1) :
        Lowered[j] = p[1] /\ SubSeq(Lowered, j, j + Len(p) - 1) = p

ConfirmedInSpan(target) ==
    SelectSeq(Occurrences(target),
              LAMBDA i : /\ LiesWithin(validation_keywords, SpanFirst(target, i), SpanLast(target, i))
                         /\ ~LiesWithin(exclusion_contexts, SpanFirst(target, i), SpanLast(target, i)))

\* C21: the context window of an occurrence spans from W characters before the
\* match start to W characters after the match end, clipped to the text, with
\* W = 300 for a phrase whose lower-cased form is in the critical list and 200
\* otherwise: an occurrence is confirmed exactly when a keyword and no negation
\* lies wholly inside that span, and its snippet is that span plus the markers.
C21_WindowSpan ==
    FindCalled =>
        \A target \in Range(words) :
            /\ Recorded(target) = Len(ConfirmedInSpan(target))
            /\ \A k \in 1..Recorded(target) :
                  Len(Contexts[target][k])
                     = SpanLast(target, ConfirmedInSpan(target)[k])
                         - SpanFirst(target, ConfirmedInSpan(target)[k]) + 1 + 10

\* a keyword 250 characters after a critical and after another phrase confirms
\* the critical one only; a confirmed occurrence with a span clipped at the start only
C21_Witness ==
    /\ FindCalled
    /\ \E a, b \in Range(words) :
          /\ IsCritical(a) /\ ~IsCritical(b)
          /\ a # lower(a)
          /\ Recorded(a) = 1 /\ Recorded(b) = 0
          /\ Len(Occurrences(b)) = 1
          /\ Contains(SubSeq(Lowered, Occurrences(b)[1], Len(Lowered)), <<"a","l","l","e","g","a","r","e">>)
          /\ SpanFirst(a, ConfirmedInSpan(a)[1]) = 1
          /\ SpanLast(a, ConfirmedInSpan(a)[1]) < Len(Lowered)

\* \w: a letter, a digit or the underscore
IsWordCharacter(c) == c \in Range(LowerCase) \cup Range(UpperCase) \cup DigitSet \cup {"_"}

IsShortWord(target) == Len(target) <= 3 /\ \A k \in 1..Len(target) : target[k] # " "

\* the indices at which the lower-cased target stands in the lower-cased text
Positions(target) ==
    LET s == Lowered
        t == lower(target)
    IN  {i \in 1..(Len(s) - Len(t) + 1) : s[i] = t[1] /\ SubSeq(s, i, i + Len(t) - 1) = t}

\* the occurrence at i is part of a longer word
Embedded(target, i) ==
    \/ i > 1 /\ IsWordCharacter(Lowered[i - 1])
    \/ i + Len(target) <= Len(Lowered) /\ IsWordCharacter(Lowered[i + Len(target)])

\* C22: a phrase of at most 3 characters with no space is never reported,
\* whatever the text; any other phrase is matched only at word boundaries: the
\* snippets recorded for it are those of its confirmed occurrences that are
\* not part of a longer word.
C22_ShortWordsAndWordBoundaries ==
    FindCalled =>
        \A target \in Range(words) :
            /\ IsShortWord(target) => target \notin Range(Found) /\ target \notin DOMAIN Contexts
            /\ ~IsShortWord(target) =>
                  Recorded(target)
                     = Cardinality({i \in Positions(target) :
                            /\ ~Embedded(target, i)
                            /\ LiesWithin(validation_keywords, SpanFirst(target, i), SpanLast(target, i))
                            /\ ~LiesWithin(exclusion_contexts, SpanFirst(target, i), SpanLast(target, i))})

\* 'CF' stands as a word next to a keyword and is not reported; 'bilancio'
\* stands only inside longer words next to a keyword and is not reported
C22_Witness ==
    /\ FindCalled
    /\ \E short, long \in Range(words) :
          /\ IsShortWord(short)
          /\ \E i \in Positions(short) :
                ~Embedded(short, i)
                /\ LiesWithin(validation_keywords, SpanFirst(short, i), SpanLast(short, i))
          /\ short \notin Range(Found)
          /\ ~IsShortWord(long)
          /\ Positions(long) # {}
          /\ \A i \in Positions(long) :
                Embedded(long, i)
                /\ LiesWithin(validation_keywords, SpanFirst(long, i), SpanLast(long, i))
          /\ long \notin Range(Found)

----------------------------------------------------------------------------
(* generate_variants *)

\* the plural ending that replaces a final letter
PluralEnding == [c \in {"e", "o", "a"} |-> IF c = "a" THEN "e" ELSE "i"]

PluralOf(term) ==
    IF term # <<>> /\ term[Len(term)] \in DOMAIN PluralEnding
    THEN <<[i \in 1..Len(term) |-> IF i = Len(term) THEN PluralEnding[term[i]] ELSE term[i]]>>
    ELSE <<>>

\* the first letters of the words of term from index i on, in upper case
RECURSIVE Initials(_, _)
Initials(term, i) ==
    IF i > Len(term) THEN <<>>
    ELSE (IF term[i] # " " /\ (i = 1 \/ term[i - 1] = " ") THEN <<UpperChar(term[i])>> ELSE <<>>)
         \o Initials(term, i + 1)

HasSpace(term) == \E i \in 1..Len(term) : term[i] = " "

----------------------------------------------------------------------------
(* process_grant_data: the derived vocabulary columns *)

DerivedPairs == {
    [primary |-> "A chi si rivolge", derived |-> "A chi si rivolge_MR", vocab |-> A_CHI_SI_RIVOLGE],
    [primary |-> "Spese ammissibili", derived |-> "Spese ammissibili_MR", vocab |-> SPESE_AMMISSIBILI_MR],
    [primary |-> "Descrizione del bando", derived |-> "Settore_MR", vocab |-> SETTORE_MR] }

\* the ', '-joined vocabulary match of a text
MatchOf(t, vocab) == Str(join(CommaSpace, match_to_controlled_vocab(t, vocab).s))

ProcessReturned == Called("process_grant_data") /\ ret.t = "dict"

\* the derived column is the match of the raw primary text when the primary
\* key is present, and the copied-through raw value or '' when it is absent
DerivedFromRaw(p) ==
    ret.s[p.derived] =
        IF p.primary \in DOMAIN raw_data THEN MatchOf(raw_data[p.primary], p.vocab)
        ELSE IF p.derived \in DOMAIN raw_data THEN raw_data[p.derived]
        ELSE Str(<<>>)

\* the match of the cleaned text stored in the primary column of the record
DerivedFromCleaned(p) ==
    p.primary \in DOMAIN raw_data => ret.s[p.derived] = MatchOf(ret.s[p.primary], p.vocab)

\* C25: for each of the three pairs, the derived column is the ', '-joined
\* vocabulary match of the primary text when the primary key is present
\* (replacing any raw derived value) and the copied-through raw value or ''
\* when it is absent; the match is the same on the raw primary text and on the
\* cleaned text stored in the primary column.
C25_DerivedColumns ==
    ProcessReturned => \A p \in DerivedPairs : DerivedFromRaw(p) /\ DerivedFromCleaned(p)

C25_DerivedFromRawText ==
    ProcessReturned => \A p \in DerivedPairs : DerivedFromRaw(p)

----------------------------------------------------------------------------
(* The detectors of the three adapters *)

AllCalled == Called("find_target_words_of_all")

\* C26: for every text and every catalog the find_target_words of
\* LombardiaCrawler, MoliseCrawler and ValleDAostaCrawler return equal found
\* lists and equal contexts maps, and the three catalogs are equal lists.
C26_AdaptersAgree ==
    /\ \A a, b \in 1..Len(Adapters) :
          Adapters[a].document_target_words = Adapters[b].document_target_words
    /\ AllCalled => \A a, b \in 1..Len(Adapters) : ret.s[a] = ret.s[b]

\* the three adapters report several phrases of the catalog, with their snippets
C26_Witness ==
    /\ AllCalled
    /\ words = MoliseCrawler.document_target_words
    /\ \A a \in 1..Len(Adapters) :
          /\ ret.s[a].t = "tuple"
          /\ Len(ret.s[a].s.found_words) >= 2
          /\ DOMAIN ret.s[a].s.context_dict = Range(ret.s[a].s.found_words)

----------------------------------------------------------------------------
(* crawl_site: the raw maps of the adapters *)

\* a raw map an adapter can build: strings and None, and a float under
\* 'Dotazione' (MoliseCrawler.parse_grant_details)
AdapterMap(raw) ==
    \A k \in DOMAIN raw : raw[k].t \in {"str", "None"} \/ (k = "Dotazione" /\ raw[k].t = "float")

CrawledAdapterMaps ==
    /\ fn = "crawl_site" /\ pc \in {"loop", "validate", "failed", "returned"}
    /\ \A k \in 1..Len(grants) : AdapterMap(grants[k])

\* C27: process_grant_data accepts every raw map an adapter can return without
\* an exception, the map with a float 'Dotazione' included, so that crawl_site
\* never gives up the records of a site because of one grant's values.
C27_AdapterMapsAccepted ==
    CrawledAdapterMaps =>
        /\ \A k \in 1..Len(grants) : ~IsRaise(process_grant_data(grants[k]))
        /\ pc # "failed"

----------------------------------------------------------------------------
(* parse_date: the dates it returns *)

\* s has the shape YYYY-MM-DD
IsoShaped(s) ==
    /\ Len(s) = 10
    /\ s[5] = "-" /\ s[8] = "-"
    /\ \A i \in {1, 2, 3, 4, 6, 7, 9, 10} : IsDigit(s[i])

LeapYear(y) == (y % 4 = 0 /\ y % 100 # 0) \/ y % 400 = 0
MonthLength(y, m) ==
    IF m = 2 THEN (IF LeapYear(y) THEN 29 ELSE 28)
    ELSE IF m \in {4, 6, 9, 11} THEN 30 ELSE 31

\* the YYYY-MM-DD string s names a day of the calendar
CalendarDate(s) ==
    LET y == DigitsValue(SubSeq(s, 1, 4))
        m == DigitsValue(SubSeq(s, 6, 7))
        d == DigitsValue(SubSeq(s, 9, 10))
    IN  m \in 1..12 /\ d \in 1..MonthLength(y, m)

\* C28: every value of the shape YYYY-MM-DD that parse_date returns is a valid
\* calendar date, whichever branch produced it; '45 marzo 2024' and
\* '123 marzo 2024' come back as the original text.
C28_ReturnedDatesAreValid ==
    /\ (Called("parse_date") /\ ret.t = "str" /\ IsoShaped(ret.s)) => CalendarDate(ret.s)
    /\ (Called("parse_date") /\ text \in {Str(<<"4","5"," ","m","a","r","z","o"," ","2","0","2","4">>), Str(<<"1","2","3"," ","m","a","r","z","o"," ","2","0","2","4">>)})
          => ret = text

----------------------------------------------------------------------------
(* BaseCrawler.crawl *)

\* the raw maps of the calls that returned a non-empty result, in call order
RECURSIVE NonEmptyResults(_)
NonEmptyResults(calls) ==
    IF calls = <<>> THEN <<>>
    ELSE (IF Head(calls).outcome.t = "dict" /\ Head(calls).outcome.s # EmptyDict
          THEN <<Head(calls).outcome.s>> ELSE <<>>)
         \o NonEmptyResults(Tail(calls))

Smaller(a, b) == IF a < b THEN a ELSE b

CrawlLoop ==
    (fn = "crawl" /\ pc \in {"loop", "returned"}) =>
        /\ Len(parsed) <= max_pages
        /\ Len(parsed) <= Len(grant_urls)
        /\ \A k \in 1..Len(parsed) : parsed[k].url = grant_urls[k]
        /\ grants = NonEmptyResults(parsed)
        /\ pc = "returned" =>
              /\ Len(parsed) = Smaller(max_pages, Len(grant_urls))
              /\ ret = List(grants)

----------------------------------------------------------------------------
(* run_crawler *)

\* the sites whose crawl_site returned a list
ReturningSites == {s \in DOMAIN crawl_results : crawl_results[s].t = "list"}

\* the sequences of distinct returning sites
SiteOrders ==
    {p \in UNION {[1..n -> ReturningSites] : n \in 0..Cardinality(ReturningSites)} :
        \A i, j \in DOMAIN p : i # j => p[i] # p[j]}

\* the grants of the sites of p, one block per site
RECURSIVE Blocks(_)
Blocks(p) == IF p = <<>> THEN <<>> ELSE crawl_results[Head(p)].s \o Blocks(Tail(p))

RunOver == fn = "run_crawler" /\ pc \in {"export", "raised"}

\* all_grants is made of whole blocks, one for each site of some order, and of
\* one for every returning site once the run is over
CollectedInBlocks ==
    fn = "run_crawler" =>
        \E p \in SiteOrders :
            /\ all_grants = Blocks(p)
            /\ RunOver => Len(p) = Cardinality(ReturningSites)

\* C30: in parallel as in sequential mode run_crawler ends with the grants of
\* every site whose crawl returned, each site's grants exactly once and as one
\* block, whatever the order in which the tasks complete; a site whose crawl
\* raises contributes nothing and takes nothing from the other sites.
C30_SameGrantsInBothModes ==
    /\ CollectedInBlocks
    /\ RunOver => pc = "export"

\* the parallel mode alone
C30_ParallelCollectsEverySite ==
    (fn = "run_crawler" /\ parallel) => (CollectedInBlocks /\ (RunOver => pc = "export"))
====
